---- MODULE Spec2Model ----
(***************************************************************************)
(* Segmentation, matching and parallel batch delivery of leads.            *)
(*                                                                         *)
(* The module follows execution/add_leads_to_campaigns_segmented.py:       *)
(*   - extract_segment_from_campaign_name  (Destination Matcher)           *)
(*   - upload_single_batch / add_leads_to_campaign (Batch Delivery Engine) *)
(*   - add_leads_to_campaigns_segmented / main (the run and its report)    *)
(* and execution/segment_by_job_title.py:                                  *)
(*   - parse_json_from_response / cluster_job_titles /                     *)
(*     fallback_segmentation (Title Classifier)                            *)
(*   - segment_by_job_title / main (Segment Assigner)                      *)
(*                                                                         *)
(* Python strings that the code inspects character by character (display   *)
(* names, segment names, e-mail addresses) are sequences of one-character  *)
(* strings; identifiers the code only compares or copies (segment_id,      *)
(* status) are plain strings.  Python dicts are records read with Get.     *)
(***************************************************************************)
EXTENDS Integers, Sequences, FiniteSets, TLC

\* ------------------------------------------------------------------ bounds
\* Leads in the partition handed to add_leads_to_campaign (SpecDelivery).
MaxLeads == 3
\* Largest batch_size argument tried in SpecDelivery and SpecBatch.
MaxBatchSize == 2
\* Largest "leads_uploaded" count a 200 response may report.
MaxReported == 2
\* Entries in the destination list (Spec).
MaxCampaigns == 2
\* Leads in one segment partition file (Spec).
MaxFileLeads == 1
\* Characters in a destination display name (SpecMatch).
MaxNameLen == 3
\* Characters in a segment name (SpecMatch).
MaxSegNameLen == 2
\* Segments in the manifest (SpecMatch).
MaxSegments == 2
\* Calls of the matcher on the same inputs (SpecMatch).
MaxMatchCalls == 2
\* most leads in the segmenter's input file
MaxInputLeads == 3
\* largest minimum segment size tried
MaxMinSize == 2
\* most segments in a classifier reply
MaxClassifierSegments == 3
\* most titles of the general bucket handed to the fallback (SpecFallback):
\* one more than the threshold below which the bucket is merged
MaxGeneralTitles == 11
\* most leads in an input file whose titles carry surrounding white space
MaxPaddedLeads == 2
\* Leads in the partition whose e-mail fields are filtered (SpecEmail).
MaxEmailLeads == 2
\* Leads, delivered one per batch, in SpecPool: more than MaxWorkers.
MaxPoolLeads == 6

\* ------------------------------------------------------- program constants
\* batch_size=100, the default of add_leads_to_campaign.
DefaultBatchSize == 100
\* min(5, len(batches)): the cap on concurrent uploads.
MaxWorkers == 5
\* response.status_code == 200
HttpOk == 200
\* segment_by_job_title(..., min_segment_size=10)
DefaultMinSegmentSize == 10
\* "if len(general_titles) < 10 and exec_titles" in fallback_segmentation
GeneralMergeThreshold == 10

\* ---------------------------------------------------------- Python values
\* None where a string (sequence of characters) is expected.
NoneStr == <<"None">>
\* None where an identifier is expected.
None == "None"

\* dict.get(k, default)
Get(d, k, default) == IF k \in DOMAIN d THEN d[k] ELSE default

\* truth value of a str-or-None
Truthy(s) == s # NoneStr /\ s # <<>>

\* a or b
Or(a, b) == IF Truthy(a) THEN a ELSE b

\* c in s
Contains(s, c) == \E i \in 1..Len(s) : s[i] = c

\* min(a, b)
Min(a, b) == IF a <= b THEN a ELSE b

\* range(start, stop, step), step > 0
RECURSIVE Range(_, _, _)
Range(start, stop, step) ==
    IF start >= stop THEN <<>>
    ELSE <<start>> \o Range(start + step, stop, step)

\* s[i:j] for 0 <= i <= j
Slice(s, i, j) == SubSeq(s, i + 1, Min(j, Len(s)))

\* ------------------------------------------------------------ is_valid_email
\* a validation that accepts every non-empty value
is_valid_email_nonempty(email) == Truthy(email)

is_valid_email(email) ==
    IF ~Truthy(email) \/ ~Contains(email, "@") THEN FALSE ELSE TRUE

\* lead.get("email") or lead.get("contact_email")
ResolvedEmail(lead) ==
    Or(Get(lead, "email", NoneStr), Get(lead, "contact_email", NoneStr))

\* the valid_leads loop of add_leads_to_campaign
FilterValid(ls) == SelectSeq(ls, LAMBDA l : is_valid_email(ResolvedEmail(l)))

\* ------------------------------------------------------------------ batches
\* a slicing that always cuts a full first batch and puts the rest in one
BatchesMergedTail(valid, size) ==
    IF Len(valid) <= size THEN <<valid>>
    ELSE <<Slice(valid, 0, size), Slice(valid, size, Len(valid))>>

\* [valid_leads[i:i + batch_size] for i in range(0, len(valid_leads), batch_size)]
MakeBatches(valid, size) ==
    LET starts == Range(0, Len(valid), size)
    IN  [k \in 1..Len(starts) |-> Slice(valid, starts[k], starts[k] + size)]

\* ------------------------------------------------------ upload_single_batch
\* The request body's lead object: the mapped fields, empty ones removed.
FormatLead(lead) ==
    LET company == Or(Get(lead, "company_name_normalized", NoneStr),
                      Or(Get(lead, "company_name", NoneStr),
                         Or(Get(lead, "companyName", NoneStr), <<>>)))
        full == [email |-> ResolvedEmail(lead),
                 first_name |-> Or(Get(lead, "first_name", NoneStr),
                                   Or(Get(lead, "firstName", NoneStr), <<>>)),
                 last_name |-> Or(Get(lead, "last_name", NoneStr),
                                  Or(Get(lead, "lastName", NoneStr), <<>>)),
                 company_name |-> company,
                 website |-> Or(Get(lead, "company_website", NoneStr),
                                Or(Get(lead, "website", NoneStr), <<>>)),
                 personalization |-> company]
    IN  [k \in {f \in DOMAIN full : Truthy(full[f])} |-> full[k]]

FormatLeads(batch) == [i \in 1..Len(batch) |-> FormatLead(batch[i])]

\* requests.exceptions.RequestException raised by requests.post
TransportError == [error |-> "RequestException"]

IsTransportError(resp) == "error" \in DOMAIN resp

\* What the platform may answer to one request: a status with a JSON object
\* body that either carries an integer "leads_uploaded" count (which may
\* exceed what was sent) or does not, or no answer at all (timeout,
\* connection failure).
Responses ==
    {[status_code |-> HttpOk, body |-> [leads_uploaded |-> v]] : v \in 0..MaxReported}
    \cup {[status_code |-> c, body |-> [message |-> "none"]] : c \in {HttpOk, 201, 500}}
    \cup {TransportError}

\* if response.status_code == 200
ResponseOk(resp) == resp.status_code = HttpOk

\* a return value that credits the reported count and fails the remainder
UploadResultPartialCredit(formatted_leads, resp) ==
    IF IsTransportError(resp) \/ ~ResponseOk(resp)
    THEN [uploaded |-> 0, failed |-> Len(formatted_leads)]
    ELSE LET u == Get(resp.body, "leads_uploaded", Len(formatted_leads))
         IN  [uploaded |-> u,
              failed |-> IF u < Len(formatted_leads)
                         THEN Len(formatted_leads) - u ELSE 0]

\* The dict upload_single_batch returns for the response (or exception) that
\* requests.post produced.
UploadResult(formatted_leads, resp) ==
    IF IsTransportError(resp)
    THEN [uploaded |-> 0, failed |-> Len(formatted_leads)]
    ELSE IF ResponseOk(resp)
         THEN [uploaded |-> Get(resp.body, "leads_uploaded", Len(formatted_leads)),
               failed |-> 0]
         ELSE [uploaded |-> 0, failed |-> Len(formatted_leads)]

\* ---------------------------------------------------- add_leads_to_campaign
\* total += x that keeps only the latest batch
AccumulateLast(total, x) == x

\* total_uploaded += result["uploaded"]; total_failed += result["failed"]
Accumulate(total, x) == total + x

DeliveryStatusAlwaysSuccess(failed) == "success"

\* "success" if total_failed == 0 else "partial"
DeliveryStatus(failed) == IF failed = 0 THEN "success" ELSE "partial"

\* a pool with one worker per batch
PoolSizePerBatch(nbatches) == nbatches

\* max_workers = min(5, len(batches))
PoolSize(nbatches) == Min(MaxWorkers, nbatches)

\* ------------------------------------- extract_segment_from_campaign_name
\* segment_name in campaign_name
In(s, t) == \E i \in 0..(Len(t) - Len(s)) : SubSeq(t, i + 1, i + Len(s)) = s

\* the for loop from its k-th turn on: the first segment whose name occurs
RECURSIVE FirstMatchFrom(_, _, _)
FirstMatchFrom(k, name, segments) ==
    IF k > Len(segments) THEN None
    ELSE IF In(segments[k].segment_name, name) THEN segments[k].segment_id
         ELSE FirstMatchFrom(k + 1, name, segments)

\* a matcher that keeps looking and returns the last segment whose name occurs
RECURSIVE LastMatchFrom(_, _, _)
LastMatchFrom(k, name, segments) ==
    IF k < 1 THEN None
    ELSE IF In(segments[k].segment_name, name) THEN segments[k].segment_id
         ELSE LastMatchFrom(k - 1, name, segments)

extract_segment_last_match(name, mapping) ==
    LastMatchFrom(Len(Get(mapping, "segments", <<>>)), name,
                  Get(mapping, "segments", <<>>))

extract_segment_from_campaign_name(name, mapping) ==
    FirstMatchFrom(1, name, Get(mapping, "segments", <<>>))

\* ------------------------------------------ add_leads_to_campaigns_segmented
\* a filter that lets every entry of the destination list participate
SuccessfulAll(cs) == cs

\* [c for c in campaigns if c.get('status') == 'success']
Successful(cs) == SelectSeq(cs, LAMBDA c : Get(c, "status", None) = "success")

\* a path that ignores the segment and always names the exec partition
SegmentFileExecOnly(seg) == "exec"

\* os.path.join(leads_dir, f"segment_{segment_id}_leads.json"): the file is
\* named after the segment_id
SegmentFile(seg) == seg

\* "success" if total_failed == 0 and total_skipped == 0 else "partial"
ReportStatus(failed, skipped) ==
    IF failed = 0 /\ skipped = 0 THEN "success" ELSE "partial"

\* an exit code that does not depend on the status
ExitCodeAlwaysZero(status) == 0

\* sys.exit(0 if result["status"] == "success" else 1)
ExitCode(status) == IF status = "success" THEN 0 ELSE 1

VARIABLES
    pc,             \* where the main thread is
    \* --- add_leads_to_campaigns_segmented
    campaigns,              \* campaigns_data['campaigns'] as loaded
    successful_campaigns,
    segment_mapping,        \* the manifest's segments, in stored order
    leads_dir,      \* per segment_id: <<>> until segment_<id>_leads.json is
                    \* looked at, then <<what the run found there>>
    idx,            \* position of the loop in successful_campaigns
    campaign_name,  \* display name of the destination being processed
    segment_id,     \* what the matcher returned for it
    results,
    total_uploaded,
    total_failed,
    total_skipped,
    report,         \* <<>> or <<the Run Report written to output_file>>
    ret,            \* <<>> or <<the dict add_leads_to_campaigns_segmented returned>>
    exit_code,      \* <<>> or <<the code main passed to sys.exit>>
    \* --- the frame of add_leads_to_campaign
    leads,          \* argument: the partition's leads
    campaign_id,    \* argument
    batch_size,     \* argument
    valid_leads,
    batches,
    future,         \* per batch: "queued", "running", "done", "collected"
    response,       \* per batch: <<>> or <<the response received>>
    batch_result,   \* per batch: <<>> or <<the dict upload_single_batch returned>>
    camp_uploaded,  \* total_uploaded of add_leads_to_campaign
    camp_failed,    \* total_failed of add_leads_to_campaign
    result,         \* <<>> or <<the dict returned>>
    \* --- history
    calls,          \* every request posted so far, in posting order
    reordered,      \* some future was collected before a lower-numbered one
    matches,        \* values returned by the matcher (SpecMatch)
    \* --- segment_by_job_title
    min_segment_size,       \* argument
    input_leads,            \* the function's "leads": the input file's content
    job_titles,             \* unique non-empty titles, in order of appearance
    api_response,           \* <<>> or <<what the classifier call produced>>
    path,                   \* how segment_definitions was obtained
    segment_definitions,    \* <<>> or <<the dict with its "segments">>
    segment_leads,          \* per segment_id: the leads collected for it
    unmatched_leads,
    seg_pos,                \* position of the loop in segment_definitions
    filtered_segments,
    total_saved_leads,
    segment_files,          \* per segment_id: <<>> or <<the leads last written
                            \* to segment_<id>_leads.json in this run>>
    mapping_file            \* <<>> or <<the manifest written>>

runVars == <<campaigns, successful_campaigns, segment_mapping, leads_dir, idx,
             campaign_name, segment_id, results, total_uploaded, total_failed,
             total_skipped, report, ret, exit_code>>

callVars == <<leads, campaign_id, batch_size, valid_leads, batches, future,
              response, batch_result, camp_uploaded, camp_failed, result>>

segVars == <<min_segment_size, input_leads, job_titles, api_response, path,
             segment_definitions, segment_leads, unmatched_leads, seg_pos,
             filtered_segments, total_saved_leads, segment_files, mapping_file>>

vars == <<pc, runVars, callVars, calls, reordered, matches, segVars>>

\* ------------------------------------------------------------------- leads
\* E-mail values: a plausible address and one without "@".
GoodEmail == <<"a", "@", "b">>
BadEmail == <<"a", "b">>

\* The field layouts a lead record comes in: one that is delivered and one
\* that is filtered out although its contact_email alias is plausible.
LeadShapes ==
    {[email |-> GoodEmail],
     [email |-> BadEmail, contact_email |-> GoodEmail]}

\* uid is the record's identity in the model: the file and the position it
\* was read from.
WithUid(shape, u) ==
    [k \in DOMAIN shape \cup {"uid"} |-> IF k = "uid" THEN u ELSE shape[k]]

\* All partitions of exactly n leads read from the file of segment `src`.
PartitionsOfLen(src, n) ==
    {[i \in 1..n |-> WithUid(s[i], <<src, i>>)] : s \in [1..n -> LeadShapes]}

PartitionsUpTo(src, n) == UNION {PartitionsOfLen(src, k) : k \in 0..n}

\* ------------------------------------------- add_leads_to_campaign: actions
BatchNums == 1..Len(batches)

Running == {b \in BatchNums : future[b] = "running"}

\* add_leads_to_campaign up to and including the submission of every batch:
\* filter, early error return, slicing, executor.submit for each batch.
FilterAndSubmit ==
    /\ pc = "call"
    /\ LET valid == FilterValid(leads)
       IN  /\ valid_leads' = valid
           /\ IF valid = <<>>
              THEN /\ result' = <<[status |-> "error",
                                   message |-> "No leads with valid email addresses",
                                   campaign_id |-> campaign_id,
                                   campaign_name |-> campaign_name]>>
                   /\ pc' = "returned"
                   /\ batches' = <<>>
              ELSE /\ batches' = MakeBatches(valid, batch_size)
                   /\ pc' = "uploading"
                   /\ result' = <<>>
    /\ future' = [b \in 1..Len(batches') |-> "queued"]
    /\ response' = [b \in 1..Len(batches') |-> <<>>]
    /\ batch_result' = [b \in 1..Len(batches') |-> <<>>]
    /\ camp_uploaded' = 0
    /\ camp_failed' = 0
    /\ UNCHANGED <<leads, campaign_id, batch_size, calls, reordered, matches,
                   runVars>>
    /\ UNCHANGED segVars

\* a pool that starts no further batch once a batch has failed
StartBatchUnlessFailed ==
    /\ pc = "uploading"
    /\ Cardinality(Running) < PoolSize(Len(batches))
    /\ \A c \in BatchNums :
          IF batch_result[c] = <<>> THEN TRUE ELSE batch_result[c][1].failed = 0
    /\ \E b \in BatchNums :
        /\ future[b] = "queued"
        /\ \A c \in BatchNums : future[c] = "queued" => b <= c
        /\ future' = [future EXCEPT ![b] = "running"]
        /\ calls' = Append(calls, [campaign_id |-> campaign_id,
                                   batch_num |-> b,
                                   batch |-> batches[b],
                                   leads |-> FormatLeads(batches[b])])
    /\ UNCHANGED <<pc, leads, campaign_id, batch_size, valid_leads, batches,
                   response, batch_result, camp_uploaded, camp_failed, result,
                   reordered, matches, runVars>>
    /\ UNCHANGED segVars

\* a worker that also takes a batch whose request was already answered and
\* posts it again
StartBatchAgain ==
    /\ pc = "uploading"
    /\ Cardinality(Running) < PoolSize(Len(batches))
    /\ \E b \in BatchNums :
        /\ future[b] \in {"queued", "done"}
        /\ future' = [future EXCEPT ![b] = "running"]
        /\ calls' = Append(calls, [campaign_id |-> campaign_id,
                                   batch_num |-> b,
                                   batch |-> batches[b],
                                   leads |-> FormatLeads(batches[b])])
    /\ UNCHANGED <<pc, leads, campaign_id, batch_size, valid_leads, batches,
                   response, batch_result, camp_uploaded, camp_failed, result,
                   reordered, matches, runVars>>
    /\ UNCHANGED segVars

\* A free worker takes the oldest queued batch and posts its request.
StartBatch ==
    /\ pc = "uploading"
    /\ Cardinality(Running) < PoolSize(Len(batches))
    /\ \E b \in BatchNums :
        /\ future[b] = "queued"
        /\ \A c \in BatchNums : future[c] = "queued" => b <= c
        /\ future' = [future EXCEPT ![b] = "running"]
        /\ calls' = Append(calls, [campaign_id |-> campaign_id,
                                   batch_num |-> b,
                                   batch |-> batches[b],
                                   leads |-> FormatLeads(batches[b])])
    /\ UNCHANGED <<pc, leads, campaign_id, batch_size, valid_leads, batches,
                   response, batch_result, camp_uploaded, camp_failed, result,
                   reordered, matches, runVars>>
    /\ UNCHANGED segVars

\* requests.post returns (or raises) for a running batch; upload_single_batch
\* returns and the batch's future is done.
CompleteBatch ==
    /\ pc = "uploading"
    /\ \E b \in Running, resp \in Responses :
        /\ response' = [response EXCEPT ![b] = <<resp>>]
        /\ batch_result' = [batch_result EXCEPT
                              ![b] = <<UploadResult(FormatLeads(batches[b]), resp)>>]
        /\ future' = [future EXCEPT ![b] = "done"]
    /\ UNCHANGED <<pc, leads, campaign_id, batch_size, valid_leads, batches,
                   camp_uploaded, camp_failed, result, calls, reordered, matches,
                   runVars>>
    /\ UNCHANGED segVars

\* One turn of "for future in as_completed(...)": any finished future that
\* was not yet yielded.
CollectResult ==
    /\ pc = "uploading"
    /\ \E b \in BatchNums :
        /\ future[b] = "done"
        /\ camp_uploaded' = Accumulate(camp_uploaded, batch_result[b][1].uploaded)
        /\ camp_failed' = Accumulate(camp_failed, batch_result[b][1].failed)
        /\ future' = [future EXCEPT ![b] = "collected"]
        /\ reordered' = (reordered \/ \E c \in 1..(b - 1) : future[c] # "collected")
    /\ UNCHANGED <<pc, leads, campaign_id, batch_size, valid_leads, batches,
                   response, batch_result, result, calls, matches, runVars>>
    /\ UNCHANGED segVars

\* a return that does not wait for the futures still queued or running
ReturnResultEarly ==
    /\ pc = "uploading"
    /\ result' = <<[status |-> DeliveryStatus(camp_failed),
                    campaign_id |-> campaign_id,
                    campaign_name |-> campaign_name,
                    total_leads |-> Len(leads),
                    valid_leads |-> Len(valid_leads),
                    uploaded |-> camp_uploaded,
                    failed |-> camp_failed]>>
    /\ pc' = "returned"
    /\ UNCHANGED <<leads, campaign_id, batch_size, valid_leads, batches, future,
                   response, batch_result, camp_uploaded, camp_failed, calls,
                   reordered, matches, runVars>>
    /\ UNCHANGED segVars

\* The loop over as_completed ends when every future was yielded; the
\* executor is shut down and the function returns its summary dict.
ReturnResult ==
    /\ pc = "uploading"
    /\ \A b \in BatchNums : future[b] = "collected"
    /\ result' = <<[status |-> DeliveryStatus(camp_failed),
                    campaign_id |-> campaign_id,
                    campaign_name |-> campaign_name,
                    total_leads |-> Len(leads),
                    valid_leads |-> Len(valid_leads),
                    uploaded |-> camp_uploaded,
                    failed |-> camp_failed]>>
    /\ pc' = "returned"
    /\ UNCHANGED <<leads, campaign_id, batch_size, valid_leads, batches, future,
                   response, batch_result, camp_uploaded, camp_failed, calls,
                   reordered, matches, runVars>>
    /\ UNCHANGED segVars

\* ------------------------------------------------------- the run's inputs
\* The manifest's segments used in the run.
SegmentIds == {"exec", "marketing"}

SegExec == [segment_id |-> "exec", segment_name |-> <<"E">>]
SegMarketing == [segment_id |-> "marketing", segment_name |-> <<"M">>]

\* What open() and json.load find: no file, a file that is not JSON, or data.
FileMissing == [state |-> "missing"]
FileInvalid == [state |-> "invalid"]
FileOk(data) == [state |-> "ok", data |-> data]

\* The segment mapping file: the two segments in either stored order.
SegmentsFiles ==
    {FileMissing, FileInvalid,
     FileOk([segments |-> <<SegExec, SegMarketing>>]),
     FileOk([segments |-> <<SegMarketing, SegExec>>])}

\* Destination-list entries: a name holding the exec segment's name, one
\* holding both segment names, one holding none, and an entry whose campaign
\* was not created successfully.
CampaignKinds ==
    {[campaign_name |-> <<"P", "E">>, status |-> "success"],
     [campaign_name |-> <<"M", "E">>, status |-> "success"],
     [campaign_name |-> <<"P", "U">>, status |-> "success"],
     [campaign_name |-> <<"P", "E">>, status |-> "error"]}

CampaignLists ==
    UNION {{[i \in 1..n |-> [campaign_id |-> i,
                             campaign_name |-> ks[i].campaign_name,
                             status |-> ks[i].status]] : ks \in [1..n -> CampaignKinds]}
           : n \in 0..MaxCampaigns}

CampaignsFiles ==
    {FileMissing, FileInvalid} \cup {FileOk([campaigns |-> cs]) : cs \in CampaignLists}

\* What segment_<seg>_leads.json may hold.
SegmentFiles(seg) ==
    {FileMissing, FileInvalid}
    \cup {FileOk(p) : p \in PartitionsUpTo(seg, MaxFileLeads)}

\* --------------------------------- add_leads_to_campaigns_segmented: actions
\* Every early "return {status: error, ...}" of the function, followed by
\* main's sys.exit.
ReturnError(message) ==
    /\ ret' = <<[status |-> "error", message |-> message]>>
    /\ exit_code' = <<ExitCode("error")>>
    /\ pc' = "exit"
    /\ UNCHANGED <<campaigns, successful_campaigns, segment_mapping, idx>>

\* The function from its start to the first turn of the loop: the API key,
\* the destination list, its filter, the segment mapping.
Configure ==
    /\ pc = "start"
    /\ \/ ReturnError("INSTANTLY_API_KEY not found in .env file")
       \/ \E cf \in CampaignsFiles :
            /\ cf.state # "ok"
            /\ ReturnError(IF cf.state = "missing"
                           THEN "Campaigns file not found"
                           ELSE "Invalid JSON in campaigns file")
       \/ \E cf \in CampaignsFiles :
            /\ cf.state = "ok"
            /\ Successful(Get(cf.data, "campaigns", <<>>)) = <<>>
            /\ ReturnError("No successful campaigns found in campaigns file")
       \/ \E cf \in CampaignsFiles, sf \in SegmentsFiles :
            /\ cf.state = "ok"
            /\ Successful(Get(cf.data, "campaigns", <<>>)) # <<>>
            /\ sf.state # "ok"
            /\ ReturnError(IF sf.state = "missing"
                           THEN "Segment mapping file not found"
                           ELSE "Invalid JSON in segments file")
       \/ \E cf \in CampaignsFiles, sf \in SegmentsFiles :
            /\ cf.state = "ok"
            /\ Successful(Get(cf.data, "campaigns", <<>>)) # <<>>
            /\ sf.state = "ok"
            /\ campaigns' = Get(cf.data, "campaigns", <<>>)
            /\ successful_campaigns' = Successful(campaigns')
            /\ segment_mapping' = sf.data
            /\ idx' = 1
            /\ pc' = "loop"
            /\ UNCHANGED <<ret, exit_code>>
    /\ UNCHANGED <<leads_dir, campaign_name, segment_id, results, total_uploaded,
                   total_failed, total_skipped, report, callVars, calls,
                   reordered, matches>>
    /\ UNCHANGED segVars

\* results.append of a destination that is not delivered to
Outcome(name, cid, status, reason) ==
    [campaign_name |-> name, campaign_id |-> cid, status |-> status,
     reason |-> reason]

\* One turn of "for campaign in successful_campaigns" up to its continue, or
\* up to the call of add_leads_to_campaign.
ProcessCampaign ==
    /\ pc = "loop"
    /\ idx <= Len(successful_campaigns)
    /\ LET campaign == successful_campaigns[idx]
           name == Get(campaign, "campaign_name", <<"U", "n", "k", "n", "o", "w", "n">>)
           cid == Get(campaign, "campaign_id", 0)
           seg == extract_segment_from_campaign_name(name, segment_mapping)
       IN  /\ campaign_name' = name
           /\ segment_id' = seg
           /\ IF seg = None
              THEN /\ results' = Append(results,
                        Outcome(name, cid, "skipped",
                                "Could not identify segment from campaign name"))
                   /\ total_skipped' = total_skipped + 1
                   /\ idx' = idx + 1
                   /\ UNCHANGED <<pc, leads_dir, total_failed, leads, campaign_id,
                                  batch_size>>
              ELSE \E file \in (IF leads_dir[SegmentFile(seg)] = <<>>
                                THEN SegmentFiles(SegmentFile(seg))
                                ELSE {leads_dir[SegmentFile(seg)][1]}) :
                   /\ leads_dir' = [leads_dir EXCEPT ![SegmentFile(seg)] = <<file>>]
                   /\ IF file.state = "missing"
                      THEN /\ results' = Append(results,
                                Outcome(name, cid, "error", "Segment file not found"))
                           /\ total_failed' = total_failed + 1
                           /\ idx' = idx + 1
                           /\ UNCHANGED <<pc, total_skipped, leads, campaign_id,
                                          batch_size>>
                      ELSE IF file.state = "invalid"
                      THEN /\ results' = Append(results,
                                Outcome(name, cid, "error", "Invalid JSON in segment file"))
                           /\ total_failed' = total_failed + 1
                           /\ idx' = idx + 1
                           /\ UNCHANGED <<pc, total_skipped, leads, campaign_id,
                                          batch_size>>
                      ELSE IF file.data = <<>>
                      THEN /\ results' = Append(results,
                                Outcome(name, cid, "skipped", "No leads in segment"))
                           /\ total_skipped' = total_skipped + 1
                           /\ idx' = idx + 1
                           /\ UNCHANGED <<pc, total_failed, leads, campaign_id,
                                          batch_size>>
                      ELSE /\ leads' = file.data
                           /\ campaign_id' = cid
                           /\ batch_size' = DefaultBatchSize
                           /\ pc' = "call"
                           /\ UNCHANGED <<results, total_skipped, total_failed, idx>>
    /\ UNCHANGED <<campaigns, successful_campaigns, segment_mapping,
                   total_uploaded, report, ret, exit_code, valid_leads, batches,
                   future, response, batch_result, camp_uploaded, camp_failed,
                   result, calls, reordered, matches>>
    /\ UNCHANGED segVars

\* The rest of the turn after add_leads_to_campaign returned: the result is
\* appended and its counts are added to the run's totals.
RecordResult ==
    /\ pc = "returned"
    /\ results' = Append(results, result[1])
    /\ total_uploaded' = total_uploaded + Get(result[1], "uploaded", 0)
    /\ total_failed' = total_failed + Get(result[1], "failed", 0)
    /\ idx' = idx + 1
    /\ pc' = "loop"
    /\ UNCHANGED <<campaigns, successful_campaigns, segment_mapping, leads_dir,
                   campaign_name, segment_id, total_skipped, report, ret,
                   exit_code, callVars, calls, reordered, matches>>
    /\ UNCHANGED segVars

\* a count of the destinations that were not skipped
CampaignsAttempted == Len(successful_campaigns) - total_skipped

\* "campaigns_processed": len(successful_campaigns)
CampaignsProcessed == Len(successful_campaigns)

\* After the loop: the Run Report is written, the function returns and main
\* exits.
WriteReport ==
    /\ pc = "loop"
    /\ idx > Len(successful_campaigns)
    /\ report' = <<[status |-> ReportStatus(total_failed, total_skipped),
                    results |-> results,
                    summary |-> [campaigns_processed |-> CampaignsProcessed,
                                 total_uploaded |-> total_uploaded,
                                 total_failed |-> total_failed,
                                 campaigns_skipped |-> total_skipped]]>>
    /\ ret' = <<[status |-> report'[1].status,
                 campaigns_processed |-> CampaignsProcessed,
                 total_uploaded |-> total_uploaded,
                 total_failed |-> total_failed,
                 campaigns_skipped |-> total_skipped]>>
    /\ exit_code' = <<ExitCode(ret'[1].status)>>
    /\ pc' = "exit"
    /\ UNCHANGED <<campaigns, successful_campaigns, segment_mapping, leads_dir,
                   idx, campaign_name, segment_id, results, total_uploaded,
                   total_failed, total_skipped, callVars, calls, reordered,
                   matches>>
    /\ UNCHANGED segVars

\* ---------------------------------------------------------------- idle parts
RunIdle ==
    /\ campaigns = <<>>
    /\ successful_campaigns = <<>>
    /\ segment_mapping = <<>>
    /\ leads_dir = [s \in SegmentIds |-> <<>>]
    /\ idx = 0
    /\ campaign_name = <<>>
    /\ segment_id = None
    /\ results = <<>>
    /\ total_uploaded = 0
    /\ total_failed = 0
    /\ total_skipped = 0
    /\ report = <<>>
    /\ ret = <<>>
    /\ exit_code = <<>>

CallIdle ==
    /\ leads = <<>>
    /\ campaign_id = 0
    /\ batch_size = DefaultBatchSize
    /\ valid_leads = <<>>
    /\ batches = <<>>
    /\ future = <<>>
    /\ response = <<>>
    /\ batch_result = <<>>
    /\ camp_uploaded = 0
    /\ camp_failed = 0
    /\ result = <<>>

SegIdle ==
    /\ min_segment_size = DefaultMinSegmentSize
    /\ input_leads = <<>>
    /\ job_titles = <<>>
    /\ api_response = <<>>
    /\ path = "none"
    /\ segment_definitions = <<>>
    /\ segment_leads = [s \in {} |-> <<>>]
    /\ unmatched_leads = <<>>
    /\ seg_pos = 0
    /\ filtered_segments = <<>>
    /\ total_saved_leads = 0
    /\ segment_files = [s \in {} |-> <<>>]
    /\ mapping_file = <<>>

\* ------------------------------------------------------------ SpecDelivery
\* One call of add_leads_to_campaign(leads, campaign_id, campaign_name,
\* api_key, batch_size) on an arbitrary partition.
InitDelivery ==
    /\ pc = "call"
    /\ RunIdle
    /\ leads \in PartitionsUpTo("exec", MaxLeads)
    /\ campaign_id = 1
    /\ batch_size \in 1..MaxBatchSize
    /\ valid_leads = <<>>
    /\ batches = <<>>
    /\ future = <<>>
    /\ response = <<>>
    /\ batch_result = <<>>
    /\ camp_uploaded = 0
    /\ camp_failed = 0
    /\ result = <<>>
    /\ calls = <<>>
    /\ reordered = FALSE
    /\ matches = <<>>
    /\ SegIdle

NextDelivery ==
    \/ FilterAndSubmit
    \/ StartBatch
    \/ CompleteBatch
    \/ CollectResult
    \/ ReturnResult

SpecDelivery == InitDelivery /\ [][NextDelivery]_vars

\* --------------------------------------------------------------- SpecEmail
\* One call of add_leads_to_campaign on leads with every layout of the two
\* e-mail fields: a plausible email, an implausible email beside a plausible
\* alias, an empty email beside a plausible alias, a null email beside a
\* plausible alias, an implausible alias alone, an empty email alone, and
\* neither field.
EmailShapes ==
    {[email |-> GoodEmail],
     [email |-> BadEmail, contact_email |-> GoodEmail],
     [email |-> <<>>, contact_email |-> GoodEmail],
     [email |-> NoneStr, contact_email |-> GoodEmail],
     [contact_email |-> BadEmail],
     [email |-> <<>>],
     [first_name |-> <<"a">>]}

EmailPartitions ==
    UNION {{[i \in 1..n |-> WithUid(s[i], <<"exec", i>>)] : s \in [1..n -> EmailShapes]}
           : n \in 0..MaxEmailLeads}

InitEmail ==
    /\ pc = "call"
    /\ RunIdle
    /\ leads \in EmailPartitions
    /\ campaign_id = 1
    /\ batch_size = 1
    /\ valid_leads = <<>>
    /\ batches = <<>>
    /\ future = <<>>
    /\ response = <<>>
    /\ batch_result = <<>>
    /\ camp_uploaded = 0
    /\ camp_failed = 0
    /\ result = <<>>
    /\ calls = <<>>
    /\ reordered = FALSE
    /\ matches = <<>>
    /\ SegIdle

SpecEmail == InitEmail /\ [][NextDelivery]_vars

\* ---------------------------------------------------------------- SpecPool
\* One call of add_leads_to_campaign with batch_size 1 on up to MaxPoolLeads
\* leads that all pass the filter, so that there are more batches than
\* workers.  During this call the platform either accepts a batch or cannot
\* be reached (a connection failure or the 60 s timeout).
PoolPartitions ==
    {[i \in 1..n |-> WithUid([email |-> GoodEmail], <<"exec", i>>)] : n \in 1..MaxPoolLeads}

PoolResponses == {[status_code |-> HttpOk, body |-> [message |-> "none"]], TransportError}

InitPool ==
    /\ pc = "call"
    /\ RunIdle
    /\ leads \in PoolPartitions
    /\ campaign_id = 1
    /\ batch_size = 1
    /\ valid_leads = <<>>
    /\ batches = <<>>
    /\ future = <<>>
    /\ response = <<>>
    /\ batch_result = <<>>
    /\ camp_uploaded = 0
    /\ camp_failed = 0
    /\ result = <<>>
    /\ calls = <<>>
    /\ reordered = FALSE
    /\ matches = <<>>
    /\ SegIdle

\* every response received so far is one of PoolResponses
PoolAnswers ==
    \A b \in DOMAIN response' : response'[b] = <<>> \/ response'[b][1] \in PoolResponses

NextPool ==
    \/ FilterAndSubmit
    \/ StartBatch
    \/ CompleteBatch /\ PoolAnswers
    \/ CollectResult
    \/ ReturnResult

SpecPool == InitPool /\ [][NextPool]_vars

\* The same call when the process does not stall for ever: as long as some
\* step is possible (the main thread can run on, an idle worker can take a
\* queued batch, a request can return or hit timeout=60, as_completed can
\* yield a finished future), a step is taken.
SpecPoolFair == SpecPool /\ WF_vars(NextPool)

\* -------------------------------------------------------------------- Spec
\* One run of main(): add_leads_to_campaigns_segmented and the exit.
Init ==
    /\ pc = "start"
    /\ RunIdle
    /\ CallIdle
    /\ calls = <<>>
    /\ reordered = FALSE
    /\ matches = <<>>
    /\ SegIdle

Next ==
    \/ Configure
    \/ ProcessCampaign
    \/ FilterAndSubmit
    \/ StartBatch
    \/ CompleteBatch
    \/ CollectResult
    \/ ReturnResult
    \/ RecordResult
    \/ WriteReport

Spec == Init /\ [][Next]_vars

\* --------------------------------------------------------------- SpecMatch
\* extract_segment_from_campaign_name called, more than once, on an arbitrary
\* display name and manifest.
\* The characters names are made of: one letter in both cases.
Alphabet == {"a", "A"}

StringsUpTo(n) == UNION {[1..k -> Alphabet] : k \in 0..n}

\* The enumerated segment_ids; the k-th segment of a manifest carries the k-th.
SegmentIdList ==
    <<"exec", "operations", "marketing", "sales", "technical", "finance", "general">>

ManifestsOfLen(n) ==
    {[segments |-> [k \in 1..n |-> [segment_id |-> SegmentIdList[k],
                                    segment_name |-> names[k]]]]
     : names \in [1..n -> StringsUpTo(MaxSegNameLen)]}

\* Manifests of up to MaxSegments segments, and one without a "segments" key.
Manifests ==
    UNION {ManifestsOfLen(n) : n \in 0..MaxSegments} \cup {[total_segments |-> 0]}

InitMatch ==
    /\ pc = "match"
    /\ campaigns = <<>>
    /\ successful_campaigns = <<>>
    /\ segment_mapping \in Manifests
    /\ leads_dir = [s \in SegmentIds |-> <<>>]
    /\ idx = 0
    /\ campaign_name \in StringsUpTo(MaxNameLen)
    /\ segment_id = None
    /\ results = <<>>
    /\ total_uploaded = 0
    /\ total_failed = 0
    /\ total_skipped = 0
    /\ report = <<>>
    /\ ret = <<>>
    /\ exit_code = <<>>
    /\ CallIdle
    /\ calls = <<>>
    /\ reordered = FALSE
    /\ matches = <<>>
    /\ SegIdle

\* segment_id = extract_segment_from_campaign_name(campaign_name, segment_mapping)
CallMatcher ==
    /\ pc = "match"
    /\ Len(matches) < MaxMatchCalls
    /\ segment_id' = extract_segment_from_campaign_name(campaign_name, segment_mapping)
    /\ matches' = Append(matches, segment_id')
    /\ UNCHANGED <<pc, campaigns, successful_campaigns, segment_mapping, leads_dir,
                   idx, campaign_name, results, total_uploaded, total_failed,
                   total_skipped, report, ret, exit_code, callVars, calls,
                   reordered>>
    /\ UNCHANGED segVars

NextMatch == CallMatcher

SpecMatch == InitMatch /\ [][NextMatch]_vars

\* ============================================================================
\* execution/segment_by_job_title.py
\* Titles are sequences of characters; segment_name and messaging_angle, which
\* this script only copies, are plain strings.
\* ------------------------------------------------------------- str methods
\* what str.lower() does to the letters A-Z
UpperToLower ==
    [A |-> "a", B |-> "b", C |-> "c", D |-> "d", E |-> "e", F |-> "f",
     G |-> "g", H |-> "h", I |-> "i", J |-> "j", K |-> "k", L |-> "l",
     M |-> "m", N |-> "n", O |-> "o", P |-> "p", Q |-> "q", R |-> "r",
     S |-> "s", T |-> "t", U |-> "u", V |-> "v", W |-> "w", X |-> "x",
     Y |-> "y", Z |-> "z"]

LowerChar(c) == IF c \in DOMAIN UpperToLower THEN UpperToLower[c] ELSE c

\* s.lower()
Lower(s) == [i \in 1..Len(s) |-> LowerChar(s[i])]

\* the white space str.strip() removes
Whitespace == {" "}

\* s.strip()
Strip(s) ==
    LET kept == {i \in 1..Len(s) : s[i] \notin Whitespace}
    IN  IF kept = {} THEN <<>>
        ELSE SubSeq(s, CHOOSE i \in kept : \A j \in kept : i <= j,
                       CHOOSE i \in kept : \A j \in kept : j <= i)

\* x in list
InList(x, list) == \E i \in 1..Len(list) : list[i] = x

\* ------------------------------------------------------------- job titles
\* lead.get('job_title') or lead.get('title') or ''
ResolvedTitle(lead) ==
    Or(Or(Get(lead, "job_title", NoneStr), Get(lead, "title", NoneStr)), <<>>)

\* The loop that collects the unique non-empty titles, from lead k on.
RECURSIVE ExtractFrom(_, _, _)
ExtractFrom(k, ls, acc) ==
    IF k > Len(ls) THEN acc
    ELSE LET job_title == ResolvedTitle(ls[k])
         IN  ExtractFrom(k + 1, ls,
                         IF Truthy(job_title) /\ ~InList(job_title, acc)
                         THEN Append(acc, job_title)
                         ELSE acc)

ExtractJobTitles(ls) == ExtractFrom(1, ls, <<>>)

\* ---------------------------------------------------- fallback_segmentation
\* the keyword lists, in the order the code tests them
ExecKeywords ==
    <<<<"c", "e", "o">>,
      <<"f", "o", "u", "n", "d", "e", "r">>,
      <<"o", "w", "n", "e", "r">>,
      <<"p", "r", "e", "s", "i", "d", "e", "n", "t">>,
      <<"m", "a", "n", "a", "g", "i", "n", "g", " ", "d", "i", "r", "e", "c", "t", "o", "r">>,
      <<"c", "h", "i", "e", "f", " ", "e", "x", "e", "c", "u", "t", "i", "v", "e">>>>
OperationsKeywords ==
    <<<<"c", "o", "o">>,
      <<"o", "p", "e", "r", "a", "t", "i", "o", "n", "s">>,
      <<"c", "h", "i", "e", "f", " ", "o", "p", "e", "r", "a", "t", "i", "n", "g">>>>
MarketingKeywords ==
    <<<<"c", "m", "o">>,
      <<"m", "a", "r", "k", "e", "t", "i", "n", "g">>,
      <<"b", "r", "a", "n", "d">>,
      <<"c", "h", "i", "e", "f", " ", "m", "a", "r", "k", "e", "t", "i", "n", "g">>>>
SalesKeywords ==
    <<<<"s", "a", "l", "e", "s">>,
      <<"b", "u", "s", "i", "n", "e", "s", "s", " ", "d", "e", "v", "e", "l", "o", "p", "m", "e", "n", "t">>,
      <<"r", "e", "v", "e", "n", "u", "e">>>>
TechnicalKeywords ==
    <<<<"c", "t", "o">>,
      <<"t", "e", "c", "h", "n", "o", "l", "o", "g", "y">>,
      <<"e", "n", "g", "i", "n", "e", "e", "r", "i", "n", "g">>,
      <<"t", "e", "c", "h", "n", "i", "c", "a", "l">>,
      <<"c", "h", "i", "e", "f", " ", "t", "e", "c", "h", "n", "o", "l", "o", "g", "y">>>>

\* any(keyword in title_lower for keyword in [...])
AnyKeyword(title_lower, keywords) ==
    \E i \in 1..Len(keywords) : In(keywords[i], title_lower)

\* The if/elif chain: the list a title is appended to.
Bucket(title) ==
    LET title_lower == Lower(title)
    IN  IF AnyKeyword(title_lower, ExecKeywords) THEN "exec"
        ELSE IF AnyKeyword(title_lower, OperationsKeywords) THEN "operations"
        ELSE IF AnyKeyword(title_lower, MarketingKeywords) THEN "marketing"
        ELSE IF AnyKeyword(title_lower, SalesKeywords) THEN "sales"
        ELSE IF AnyKeyword(title_lower, TechnicalKeywords) THEN "technical"
        ELSE "general"

\* exec_titles, operations_titles, ...: the titles of one bucket, in order
BucketTitles(titles, b) == SelectSeq(titles, LAMBDA t : Bucket(t) = b)

\* segment_name and messaging_angle of the segments the fallback builds
FallbackNames ==
    [exec |-> "Executive Leadership", operations |-> "Operations Leadership",
     marketing |-> "Marketing Leadership", sales |-> "Sales Leadership",
     technical |-> "Technical Leadership", general |-> "General Management"]

FallbackAngles ==
    [exec |-> "Revenue growth and strategic outcomes",
     operations |-> "Operational efficiency with revenue impact",
     marketing |-> "Lead generation ROI and brand growth",
     sales |-> "Pipeline acceleration and quota attainment",
     technical |-> "Innovation and technical excellence",
     general |-> "Business growth and operational excellence"]

\* one segment dict as the fallback builds it
FallbackSegment(b, titles) ==
    [segment_id |-> b, segment_name |-> FallbackNames[b],
     job_titles |-> titles, messaging_angle |-> FallbackAngles[b]]

\* "if exec_titles: segments.append(...)", and so on for the five buckets
KeywordSegments(titles) ==
    LET seg(b) == IF BucketTitles(titles, b) # <<>>
                  THEN <<FallbackSegment(b, BucketTitles(titles, b))>>
                  ELSE <<>>
    IN  seg("exec") \o seg("operations") \o seg("marketing") \o seg("sales")
        \o seg("technical")

\* a fallback that still merges a general bucket of exactly the threshold
fallback_merging_at_threshold(titles) ==
    LET exec_titles == BucketTitles(titles, "exec")
        general_titles == BucketTitles(titles, "general")
        segments == KeywordSegments(titles)
    IN  [segments |->
           IF general_titles = <<>> THEN segments
           ELSE IF Len(general_titles) <= GeneralMergeThreshold /\ exec_titles # <<>>
           THEN [segments EXCEPT ![1].job_titles = @ \o general_titles]
           ELSE Append(segments, FallbackSegment("general", general_titles))]

\* fallback_segmentation(job_titles)
fallback_segmentation(titles) ==
    LET exec_titles == BucketTitles(titles, "exec")
        general_titles == BucketTitles(titles, "general")
        segments == KeywordSegments(titles)
    IN  [segments |->
           IF general_titles = <<>> THEN segments
           ELSE IF Len(general_titles) < GeneralMergeThreshold /\ exec_titles # <<>>
           THEN [segments EXCEPT ![1].job_titles = @ \o general_titles]
           ELSE Append(segments, FallbackSegment("general", general_titles))]

\* ------------------------------------------------ parse_json_from_response
\* The classifier's reply is text.  Its pieces are tokens: the marker that
\* opens a json code block (three backquotes and the word json), the marker
\* of three backquotes alone, a JSON document, and any other prose.
FenceJson == [kind |-> "fence_json"]
Fence == [kind |-> "fence"]
Prose == [kind |-> "prose"]
Json(value) == [kind |-> "json", value |-> value]

\* the three backquotes occur in a token: the json marker contains them too
IsFence(tok) == tok.kind \in {"fence", "fence_json"}

IsFenceJson(tok) == tok.kind = "fence_json"

\* where the markers of either kind, and the json markers, are in the text
FencePositions(text) == {i \in 1..Len(text) : IsFence(text[i])}

JsonFencePositions(text) == {i \in 1..Len(text) : IsFenceJson(text[i])}

First(S) == CHOOSE i \in S : \A j \in S : i <= j

\* text.split(marker)[1].split(three backquotes)[0]: what lies between the
\* marker at position open and the next fence after it (or the end)
Fenced(text, open) ==
    LET closes == {i \in FencePositions(text) : i > open}
    IN  SubSeq(text, open + 1, IF closes = {} THEN Len(text) ELSE First(closes) - 1)

\* json.loads(text): a value, or the JSONDecodeError it raises
ParseError == [raised |-> "JSONDecodeError"]

json_loads(text) ==
    IF Len(text) = 1 /\ text[1].kind = "json"
    THEN [value |-> text[1].value]
    ELSE ParseError

\* parse_json_from_response(response_text)
parse_json_from_response(text) ==
    IF JsonFencePositions(text) # {}
    THEN json_loads(Fenced(text, First(JsonFencePositions(text))))
    ELSE IF FencePositions(text) # {}
    THEN json_loads(Fenced(text, First(FencePositions(text))))
    ELSE json_loads(text)

\* ------------------------------------------------------ cluster_job_titles
\* What client.messages.create(...) produces: an exception (service
\* unavailable, timeout, empty content), or a reply whose text is returned.
ApiRaised == [raised |-> "APIError"]
ApiText(text) == [text |-> text]

\* cluster_job_titles(job_titles, api_key) given what the call produced:
\* [value |-> the parsed reply], or [raised |-> the exception]
cluster_job_titles(reply) ==
    IF "raised" \in DOMAIN reply THEN reply
    ELSE parse_json_from_response(reply.text)

\* ------------------------------------------------------ segment assignment
\* the segment_id values the prompt enumerates
SegmentIdSet == {SegmentIdList[i] : i \in DOMAIN SegmentIdList}

\* title_to_segment.get(key) once the dict is built from segments 1..k: the
\* segment_id stored last under the key, or None
RECURSIVE LookupFrom(_, _, _)
LookupFrom(k, key, segments) ==
    IF k = 0 THEN None
    ELSE IF \E i \in 1..Len(segments[k].job_titles) :
                Lower(segments[k].job_titles[i]) = key
         THEN segments[k].segment_id
         ELSE LookupFrom(k - 1, key, segments)

title_to_segment(key, segments) == LookupFrom(Len(segments), key, segments)

\* segment_id = title_to_segment.get(job_title.lower()), job_title stripped
LeadSegment(lead, segments) ==
    title_to_segment(Lower(Strip(ResolvedTitle(lead))), segments)

\* "if segment_id:"
Matched(lead, segments) ==
    LeadSegment(lead, segments) # None /\ LeadSegment(lead, segments) # ""

\* segment_leads after the loop over the leads
SplitLeads(ls, segments) ==
    [id \in SegmentIdSet |->
        SelectSeq(ls, LAMBDA l : Matched(l, segments) /\ LeadSegment(l, segments) = id)]

\* unmatched_leads after the loop over the leads
Unmatched(ls, segments) == SelectSeq(ls, LAMBDA l : ~Matched(l, segments))

\* unmatched leads that are left out of every partition
AssignUnmatchedDropped(sl, unmatched) == sl

\* "if unmatched_leads: segment_leads['exec'].extend(unmatched_leads)"
AssignUnmatched(sl, unmatched) == [sl EXCEPT !["exec"] = @ \o unmatched]

\* segment['lead_count'] = n
WithCount(segment, n) ==
    [k \in DOMAIN segment \cup {"lead_count"} |->
        IF k = "lead_count" THEN n ELSE segment[k]]

\* positions of the entries of a segment list whose segment_id is exec
ExecEntries(segments) ==
    {i \in 1..Len(segments) : segments[i].segment_id = "exec"}

\* a floor that only rejects empty segments
KeepsNonEmpty(lead_count, N) == lead_count > 0

\* "if lead_count >= min_segment_size"
Keeps(lead_count, N) == lead_count >= N

\* a below-minimum segment that is dropped with its leads
MergeDropped(st, segment, leads_in_segment) == st

\* The branch "elif lead_count > 0": the first exec entry of filtered_segments
\* grows, or an exec entry is created with the merged segment's titles; the
\* leads are appended to segment_leads['exec'].  st holds the function's
\* locals; leads_in_segment is the list segment_leads[segment_id] itself.
MergeIntoExec(st, segment, leads_in_segment) ==
    LET lead_count == Len(leads_in_segment)
        found == ExecEntries(st.filtered_segments)
    IN  IF found # {}
        THEN [st EXCEPT
                !.filtered_segments[First(found)].lead_count = @ + lead_count,
                !.segment_leads["exec"] = @ \o leads_in_segment]
        ELSE [st EXCEPT
                !.filtered_segments =
                    Append(@, [segment_id |-> "exec",
                               segment_name |-> "Executive Leadership",
                               job_titles |-> segment.job_titles,
                               messaging_angle |-> "Revenue growth and strategic outcomes",
                               lead_count |-> lead_count]),
                !.segment_leads["exec"] = @ \o leads_in_segment]

\* One turn of "for segment in segment_definitions['segments']".
FilterOne(st, segment, N) ==
    LET sid == segment.segment_id
        leads_in_segment == st.segment_leads[sid]
        lead_count == Len(leads_in_segment)
    IN  IF Keeps(lead_count, N)
        THEN [st EXCEPT
                !.filtered_segments = Append(@, WithCount(segment, lead_count)),
                !.segment_files[sid] = <<leads_in_segment>>,
                !.total_saved_leads = @ + lead_count]
        ELSE IF lead_count > 0
        THEN MergeIntoExec(st, segment, leads_in_segment)
        ELSE st

\* "Re-save exec segment if it was modified by merges"
ResaveExec(st) ==
    LET exec_leads == st.segment_leads["exec"]
        found == ExecEntries(st.filtered_segments)
    IN  IF Len(exec_leads) > 0
        THEN [st EXCEPT
                !.segment_files["exec"] = <<exec_leads>>,
                !.filtered_segments =
                    IF found = {} THEN @
                    ELSE [@ EXCEPT ![First(found)].lead_count = Len(exec_leads)]]
        ELSE st

\* the manifest written to output_mapping_file (its timestamp left out)
Mapping(filtered, ls) ==
    [segments |-> filtered, total_leads |-> Len(ls), total_segments |-> Len(filtered)]

\* ------------------------------------------------- segment_by_job_title: inputs
CEO == <<"C", "E", "O">>
COO == <<"C", "O", "O">>
CMO == <<"C", "M", "O">>

\* The leads of the input file: a title under job_title, a title under the
\* alias "title", and an empty title.
TitleShapes == {[job_title |-> CEO], [title |-> COO], [job_title |-> <<>>]}

LeadLists ==
    UNION {{[i \in 1..n |-> WithUid(s[i], <<"input", i>>)] : s \in [1..n -> TitleShapes]}
           : n \in 0..MaxInputLeads}

\* Titles as they are often exported: with a trailing or a leading blank.
PaddedShapes ==
    {[job_title |-> <<"C", "O", "O", " ">>], [job_title |-> <<" ", "C", "E", "O">>],
     [title |-> COO]}

PaddedLists ==
    UNION {{[i \in 1..n |-> WithUid(s[i], <<"input", i>>)] : s \in [1..n -> PaddedShapes]}
           : n \in 1..MaxPaddedLeads}

InputFiles ==
    {FileMissing, FileInvalid} \cup {FileOk(ls) : ls \in LeadLists \cup PaddedLists}

\* Replies that follow the requested format: up to MaxClassifierSegments
\* segments with distinct segment_ids in any order, each listing one title of
\* its own.  Nothing makes the service list every title it was given.
ClassifierIds == {"exec", "operations", "marketing"}

ClassifierTitles == {<<CEO>>, <<COO>>, <<CMO>>}

Injective(f) == \A i, j \in DOMAIN f : f[i] = f[j] => i = j

ClassifierManifests ==
    UNION {{[segments |-> [k \in 1..n |-> FallbackSegment(ids[k], ts[k])]]
            : ids \in {f \in [1..n -> ClassifierIds] : Injective(f)},
              ts \in {f \in [1..n -> ClassifierTitles] : Injective(f)}}
           : n \in 0..MaxClassifierSegments}

\* Nor does anything make it list a title once: replies with one title in
\* two segments.
DuplicatingManifests ==
    {[segments |-> <<FallbackSegment("exec", t), FallbackSegment("operations", t)>>]
     : t \in ClassifierTitles}

SampleManifest == [segments |-> <<FallbackSegment("exec", <<CEO>>)>>]

\* Other replies: prose only, prose around a bare document, a document in a
\* json code block, one in a plain code block, a JSON object without
\* "segments", and one whose segment lacks "job_titles".
OtherTexts ==
    {<<Prose>>,
     <<Prose, Json(SampleManifest)>>,
     <<Prose, FenceJson, Json(SampleManifest), Fence, Prose>>,
     <<Fence, Json(SampleManifest), Fence>>,
     <<Json([error |-> "overloaded"])>>,
     <<Json([segments |-> <<[segment_id |-> "exec"]>>])>>}

Replies ==
    {ApiRaised}
    \cup {ApiText(<<Json(m)>>) : m \in ClassifierManifests \cup DuplicatingManifests}
    \cup {ApiText(t) : t \in OtherTexts}

\* ------------------------------------------------ segment_by_job_title: actions
\* the uploader's variables, which this script leaves alone
uploadVars == <<campaigns, successful_campaigns, segment_mapping, leads_dir, idx,
                campaign_name, segment_id, results, total_uploaded, total_failed,
                total_skipped, report, callVars, calls, reordered, matches>>

\* the locals the loop over the segments works on
SegState ==
    [filtered_segments |-> filtered_segments, segment_leads |-> segment_leads,
     segment_files |-> segment_files, total_saved_leads |-> total_saved_leads]

\* Every early "return {status: error, ...}", followed by main's sys.exit.
SegReturnError(message) ==
    /\ ret' = <<[status |-> "error", message |-> message]>>
    /\ exit_code' = <<ExitCode("error")>>
    /\ pc' = "exit"
    /\ UNCHANGED <<input_leads, job_titles>>

\* The API key, the input file, the unique titles.
LoadLeads ==
    /\ pc = "segment"
    /\ \/ SegReturnError("ANTHROPIC_API_KEY not found in .env file")
       \/ \E f \in InputFiles :
            /\ f.state # "ok"
            /\ SegReturnError(IF f.state = "missing"
                              THEN "Input file not found"
                              ELSE "Invalid JSON in input file")
       \/ \E f \in InputFiles :
            /\ f.state = "ok"
            /\ input_leads' = f.data
            /\ job_titles' = ExtractJobTitles(f.data)
            /\ pc' = "classify"
            /\ UNCHANGED <<ret, exit_code>>
    /\ UNCHANGED <<min_segment_size, api_response, path, segment_definitions,
                   segment_leads, unmatched_leads, seg_pos, filtered_segments,
                   total_saved_leads, segment_files, mapping_file, uploadVars>>

\* "if not job_titles": the single General segment.
NoTitles ==
    /\ pc = "classify"
    /\ job_titles = <<>>
    /\ segment_definitions' =
         <<[segments |-> <<[segment_id |-> "general",
                            segment_name |-> "General",
                            job_titles |-> <<>>,
                            messaging_angle |-> "Business growth and operational excellence"]>>]>>
    /\ path' = "general"
    /\ pc' = "assign"
    /\ UNCHANGED <<min_segment_size, input_leads, job_titles, api_response,
                   segment_leads, unmatched_leads, seg_pos, filtered_segments,
                   total_saved_leads, segment_files, mapping_file, ret, exit_code,
                   uploadVars>>

\* The try block: cluster_job_titles and the read of its 'segments'; any
\* exception there selects fallback_segmentation.
Classify ==
    /\ pc = "classify"
    /\ job_titles # <<>>
    /\ \E reply \in Replies :
        LET got == cluster_job_titles(reply)
        IN  /\ api_response' = <<reply>>
            /\ IF "value" \in DOMAIN got /\ "segments" \in DOMAIN got.value
               THEN /\ segment_definitions' = <<got.value>>
                    /\ path' = "primary"
               ELSE /\ segment_definitions' = <<fallback_segmentation(job_titles)>>
                    /\ path' = "fallback"
    /\ pc' = "assign"
    /\ UNCHANGED <<min_segment_size, input_leads, job_titles, segment_leads,
                   unmatched_leads, seg_pos, filtered_segments, total_saved_leads,
                   segment_files, mapping_file, ret, exit_code, uploadVars>>

\* segment['job_titles'] and segment['segment_id'] can be read
WellFormed(segment) ==
    "job_titles" \in DOMAIN segment /\ "segment_id" \in DOMAIN segment

\* The title lookup is built and the leads are split; a segment without the
\* keys read here raises KeyError, which nothing catches.
AssignLeads ==
    /\ pc = "assign"
    /\ LET segments == segment_definitions[1].segments
       IN  IF \A k \in 1..Len(segments) : WellFormed(segments[k])
           THEN /\ unmatched_leads' = Unmatched(input_leads, segments)
                /\ segment_leads' = AssignUnmatched(SplitLeads(input_leads, segments),
                                                    Unmatched(input_leads, segments))
                /\ seg_pos' = 1
                /\ pc' = "filter"
                /\ UNCHANGED exit_code
           ELSE /\ pc' = "crashed"
                /\ exit_code' = <<1>>
                /\ UNCHANGED <<unmatched_leads, segment_leads, seg_pos>>
    /\ UNCHANGED <<min_segment_size, input_leads, job_titles, api_response, path,
                   segment_definitions, filtered_segments, total_saved_leads,
                   segment_files, mapping_file, ret, uploadVars>>

\* One turn of the loop over segment_definitions['segments'].
FilterSegment ==
    /\ pc = "filter"
    /\ seg_pos <= Len(segment_definitions[1].segments)
    /\ LET st == FilterOne(SegState, segment_definitions[1].segments[seg_pos],
                           min_segment_size)
       IN  /\ filtered_segments' = st.filtered_segments
           /\ segment_leads' = st.segment_leads
           /\ segment_files' = st.segment_files
           /\ total_saved_leads' = st.total_saved_leads
    /\ seg_pos' = seg_pos + 1
    /\ UNCHANGED <<pc, min_segment_size, input_leads, job_titles, api_response,
                   path, segment_definitions, unmatched_leads, mapping_file, ret,
                   exit_code, uploadVars>>

\* After the loop: the exec partition is written again and its count updated.
ResaveExecSegment ==
    /\ pc = "filter"
    /\ seg_pos > Len(segment_definitions[1].segments)
    /\ LET st == ResaveExec(SegState)
       IN  /\ filtered_segments' = st.filtered_segments
           /\ segment_files' = st.segment_files
    /\ pc' = "save"
    /\ UNCHANGED <<min_segment_size, input_leads, job_titles, api_response, path,
                   segment_definitions, segment_leads, unmatched_leads, seg_pos,
                   total_saved_leads, mapping_file, ret, exit_code, uploadVars>>

\* os.makedirs(output_dir) is called only where a segment is kept: when none
\* was and output_dir does not exist, the open() of the exec file raises
\* FileNotFoundError, which nothing catches.
ResaveExecFails ==
    /\ pc = "filter"
    /\ seg_pos > Len(segment_definitions[1].segments)
    /\ Len(segment_leads["exec"]) > 0
    /\ \A id \in SegmentIdSet : segment_files[id] = <<>>
    /\ pc' = "crashed"
    /\ exit_code' = <<1>>
    /\ UNCHANGED <<segVars, ret, uploadVars>>

\* The manifest is written, the function returns and main exits.
SaveMapping ==
    /\ pc = "save"
    /\ mapping_file' = <<Mapping(filtered_segments, input_leads)>>
    /\ ret' = <<[status |-> "success",
                 total_leads |-> Len(input_leads),
                 total_segments |-> Len(filtered_segments),
                 segments |-> filtered_segments]>>
    /\ exit_code' = <<ExitCode("success")>>
    /\ pc' = "exit"
    /\ UNCHANGED <<min_segment_size, input_leads, job_titles, api_response, path,
                   segment_definitions, segment_leads, unmatched_leads, seg_pos,
                   filtered_segments, total_saved_leads, segment_files, uploadVars>>

\* ------------------------------------------------------------- SpecSegment
\* One run of segment_by_job_title.py's main().
InitSegment ==
    /\ pc = "segment"
    /\ RunIdle
    /\ CallIdle
    /\ calls = <<>>
    /\ reordered = FALSE
    /\ matches = <<>>
    /\ min_segment_size \in 1..MaxMinSize
    /\ input_leads = <<>>
    /\ job_titles = <<>>
    /\ api_response = <<>>
    /\ path = "none"
    /\ segment_definitions = <<>>
    /\ segment_leads = [id \in SegmentIdSet |-> <<>>]
    /\ unmatched_leads = <<>>
    /\ seg_pos = 0
    /\ filtered_segments = <<>>
    /\ total_saved_leads = 0
    /\ segment_files = [id \in SegmentIdSet |-> <<>>]
    /\ mapping_file = <<>>

NextSegment ==
    \/ LoadLeads
    \/ NoTitles
    \/ Classify
    \/ AssignLeads
    \/ FilterSegment
    \/ ResaveExecSegment
    \/ ResaveExecFails
    \/ SaveMapping

SpecSegment == InitSegment /\ [][NextSegment]_vars

\* ------------------------------------------------------------ SpecFallback
\* fallback_segmentation called on a list of unique titles: up to
\* MaxGeneralTitles titles that hit no keyword ("VP I", "VP II", ...),
\* preceded and followed by titles that do.
GeneralTitle(i) == <<"V", "P", " ">> \o [j \in 1..i |-> "I"]

Owner == <<"O", "w", "n", "e", "r">>

FallbackTitleLists ==
    {pre \o [i \in 1..g |-> GeneralTitle(i)] \o post :
        g \in 0..MaxGeneralTitles,
        pre \in {<<>>, <<CEO>>, <<COO>>, <<COO, CEO>>},
        post \in {<<>>, <<CMO>>, <<Owner>>}}

InitFallback ==
    /\ pc = "fallback"
    /\ RunIdle
    /\ CallIdle
    /\ calls = <<>>
    /\ reordered = FALSE
    /\ matches = <<>>
    /\ min_segment_size = DefaultMinSegmentSize
    /\ input_leads = <<>>
    /\ job_titles \in FallbackTitleLists
    /\ api_response = <<>>
    /\ path = "none"
    /\ segment_definitions = <<>>
    /\ segment_leads = [id \in SegmentIdSet |-> <<>>]
    /\ unmatched_leads = <<>>
    /\ seg_pos = 0
    /\ filtered_segments = <<>>
    /\ total_saved_leads = 0
    /\ segment_files = [id \in SegmentIdSet |-> <<>>]
    /\ mapping_file = <<>>

\* segment_definitions = fallback_segmentation(job_titles)
CallFallback ==
    /\ pc = "fallback"
    /\ segment_definitions' = <<fallback_segmentation(job_titles)>>
    /\ path' = "fallback"
    /\ pc' = "classified"
    /\ UNCHANGED <<min_segment_size, input_leads, job_titles, api_response,
                   segment_leads, unmatched_leads, seg_pos, filtered_segments,
                   total_saved_leads, segment_files, mapping_file, ret, exit_code,
                   uploadVars>>

NextFallback == CallFallback

SpecFallback == InitFallback /\ [][NextFallback]_vars


\* =================================================================== claims
\* the statuses recorded in a results list
Statuses(rs) == {rs[i].status : i \in DOMAIN rs}

\* C1 as stated: when the run gets past configuration and input loading, the
\* Run Report status is "success" and the exit code is 0 only if every
\* participating destination's recorded status is success; a destination
\* recorded partial, error (the no-valid-email error included) or skipped
\* makes the report status differ from "success" and the exit code non-zero.
C1_SuccessOnlyIfAllSucceeded ==
    report # <<>> =>
        ((report[1].status = "success" \/ exit_code = <<0>>)
            => Statuses(report[1].results) \subseteq {"success"})

\* the destination-list entries that participate, as the claims describe them
Participants == SelectSeq(campaigns, LAMBDA c : c.status = "success")

\* the segment the Destination Matcher resolves for a destination
Resolved(c) == extract_segment_from_campaign_name(c.campaign_name, segment_mapping)

\* lead l was read from the partition file of segment seg
ReadFrom(l, seg) ==
    /\ leads_dir[seg] # <<>>
    /\ leads_dir[seg][1].state = "ok"
    /\ \E m \in DOMAIN leads_dir[seg][1].data : leads_dir[seg][1].data[m] = l

\* C2: every delivery call made for a destination carries only leads read
\* from the partition file of the single segment the Destination Matcher
\* resolves from that destination's display name; a destination that
\* resolves to no segment receives no delivery call.
C2_CallsCarryOnlyResolvedSegmentLeads ==
    \A i \in DOMAIN calls :
        \E k \in DOMAIN successful_campaigns :
            /\ successful_campaigns[k].campaign_id = calls[i].campaign_id
            /\ Resolved(successful_campaigns[k]) # None
            /\ Len(calls[i].leads) = Len(calls[i].batch)
            /\ \A j \in DOMAIN calls[i].batch :
                /\ ReadFrom(calls[i].batch[j], Resolved(successful_campaigns[k]))
                /\ calls[i].leads[j].email = ResolvedEmail(calls[i].batch[j])

\* C2 witness: the run ended after a delivery call for a destination that
\* resolves to the marketing segment and after skipping an unresolved one.
C2_MarketingCallAndUnresolved ==
    /\ pc = "exit"
    /\ \E i \in DOMAIN calls, k \in DOMAIN successful_campaigns :
        /\ successful_campaigns[k].campaign_id = calls[i].campaign_id
        /\ Resolved(successful_campaigns[k]) = "marketing"
    /\ \E k \in DOMAIN successful_campaigns :
        /\ Resolved(successful_campaigns[k]) = None
        /\ \A i \in DOMAIN calls :
            calls[i].campaign_id # successful_campaigns[k].campaign_id

\* a literal, case-sensitive occurrence of s in t
Occurs(s, t) == \E i, j \in 0..Len(t) : i <= j /\ SubSeq(t, i + 1, j) = s

\* the positions of the manifest segments whose name occurs in the display name
Hits ==
    LET segs == Get(segment_mapping, "segments", <<>>)
    IN  {k \in DOMAIN segs : Occurs(segs[k].segment_name, campaign_name)}

\* C3: extract_segment_from_campaign_name returns the segment_id of the first
\* segment, in the manifest's stored order, whose segment_name is a
\* case-sensitive literal substring of the display name, and None exactly
\* when no segment_name is a substring; of two matching segments the earlier
\* wins, and repeated calls on the same inputs return the same segment_id.
C3_FirstMatchInStoredOrder ==
    \A c \in DOMAIN matches :
        /\ (matches[c] = None) <=> (Hits = {})
        /\ Hits # {} =>
            \E k \in Hits :
                /\ \A h \in Hits : k <= h
                /\ matches[c] = segment_mapping.segments[k].segment_id
        /\ matches[c] = matches[1]

\* C3 witness: the matcher was called twice on a name in which two segments
\* with different names both occur.
C3_TwoSegmentsOccur ==
    /\ Len(matches) = 2
    /\ {1, 2} \subseteq Hits
    /\ segment_mapping.segments[1].segment_name
         # segment_mapping.segments[2].segment_name
    /\ matches[2] = "exec"

\* C4: the Run Report's results list holds exactly one entry for each
\* destination-list entry whose status is "success", in destination-list
\* order, and none for any other; a destination whose segment is unresolved
\* or whose partition file is missing, unparsable or empty is recorded with
\* status error or skipped, and every later destination is still processed.
C4_OneResultPerParticipant ==
    report # <<>> =>
        /\ Len(report[1].results) = Len(Participants)
        /\ \A i \in DOMAIN report[1].results :
            /\ report[1].results[i].campaign_id = Participants[i].campaign_id
            /\ LET seg == Resolved(Participants[i])
               IN  (\/ seg = None
                    \/ leads_dir[seg] = <<>>
                    \/ leads_dir[seg][1].state # "ok"
                    \/ leads_dir[seg][1].data = <<>>)
                   => report[1].results[i].status \in {"error", "skipped"}

\* C4 witness: a report in which a destination recorded error or skipped is
\* followed by a destination that was delivered to.
C4_DeliveredAfterFailure ==
    /\ report # <<>>
    /\ Len(report[1].results) = 2
    /\ report[1].results[1].status \in {"error", "skipped"}
    /\ report[1].results[2].status = "success"

\* the number of entries of rs recorded with status st
NumWithStatus(rs, st) == Cardinality({i \in DOMAIN rs : rs[i].status = st})

\* C5 as stated: campaigns_processed counts only the destinations for which
\* delivery was attempted (those not skipped), and campaigns_skipped counts
\* the skipped ones.
C5_ProcessedExcludesSkipped ==
    report # <<>> =>
        /\ report[1].summary.campaigns_processed =
                Len(report[1].results) - NumWithStatus(report[1].results, "skipped")
        /\ report[1].summary.campaigns_skipped =
                NumWithStatus(report[1].results, "skipped")

\* C5 amended: campaigns_processed counts every participating destination
\* (every destination-list entry whose status is "success"), the skipped ones
\* included, and campaigns_skipped counts the skipped ones.
C5_ProcessedCountsAllParticipants ==
    report # <<>> =>
        /\ report[1].summary.campaigns_processed = Len(Participants)
        /\ report[1].summary.campaigns_processed = Len(report[1].results)
        /\ report[1].summary.campaigns_skipped =
                NumWithStatus(report[1].results, "skipped")

\* C5 witness: a report over two participating destinations, one skipped as
\* unresolved and one attempted.
C5_OneSkippedOneAttempted ==
    /\ report # <<>>
    /\ Len(report[1].results) = 2
    /\ NumWithStatus(report[1].results, "skipped") = 1
    /\ \E k \in DOMAIN successful_campaigns : Resolved(successful_campaigns[k]) = None
    /\ report[1].summary.campaigns_processed = 2
    /\ report[1].summary.campaigns_skipped = 1

\* ceil(n / b)
CeilDiv(n, b) == (n + b - 1) \div b

\* the concatenation of a sequence of sequences
RECURSIVE Flatten(_)
Flatten(ss) == IF ss = <<>> THEN <<>> ELSE Head(ss) \o Flatten(Tail(ss))

\* 250 valid leads cut with the default batch size
Example250 == MakeBatches([i \in 1..250 |-> i], DefaultBatchSize)

\* C6: for n valid leads and batch size B, add_leads_to_campaign forms exactly
\* ceil(n/B) batches, every batch but the last has exactly B leads, and the
\* batches concatenated in batch-number order are the valid leads in their
\* original order; 250 valid leads with B = 100 give batches of 100, 100, 50.
C6_BatchesPartitionValidLeads ==
    /\ (pc \in {"uploading", "returned"} /\ valid_leads # <<>>) =>
        /\ Len(batches) = CeilDiv(Len(valid_leads), batch_size)
        /\ \A k \in 1..(Len(batches) - 1) : Len(batches[k]) = batch_size
        /\ Flatten(batches) = valid_leads
    /\ [k \in 1..Len(Example250) |-> Len(Example250[k])] = <<100, 100, 50>>

\* C6 witness: batches were formed and the last one is shorter than B.
C6_ShortLastBatch ==
    /\ pc = "uploading"
    /\ Len(batches) = 2
    /\ Len(batches[1]) = batch_size
    /\ Len(batches[2]) < batch_size

\* the batches whose request was answered (or failed in transport)
Answered == {b \in BatchNums : response[b] # <<>>}

\* the contribution the claim gives a batch, where `ok` says whether its
\* response counts as a success
Credited(b, ok) ==
    IF ok
    THEN [uploaded |-> Get(response[b][1].body, "leads_uploaded", Len(batches[b])),
          failed |-> 0]
    ELSE [uploaded |-> 0, failed |-> Len(batches[b])]

C8_CountsWithinValidLeads ==
    (result # <<>> /\ "uploaded" \in DOMAIN result[1]) =>
        /\ result[1].uploaded >= 0
        /\ result[1].failed >= 0
        /\ result[1].uploaded + result[1].failed <= result[1].valid_leads

\* sum of f[i] over i in S
RECURSIVE SumOver(_, _)
SumOver(f, S) ==
    IF S = {} THEN 0
    ELSE LET i == CHOOSE j \in S : TRUE IN f[i] + SumOver(f, S \ {i})

\* the 250-lead example: batches 1 and 3 answered 200, batch 2 answered 500
ExampleResults ==
    [k \in 1..3 |->
        UploadResult(Example250[k],
                     [status_code |-> IF k = 2 THEN 500 ELSE 200,
                      body |-> [message |-> "none"]])]

ExampleUploaded ==
    Accumulate(Accumulate(Accumulate(0, ExampleResults[1].uploaded),
                          ExampleResults[2].uploaded), ExampleResults[3].uploaded)

ExampleFailed ==
    Accumulate(Accumulate(Accumulate(0, ExampleResults[1].failed),
                          ExampleResults[2].failed), ExampleResults[3].failed)

\* C9: after delivery to one destination, uploaded is the sum of the
\* per-batch uploaded counts, failed the sum of the per-batch failed counts,
\* and the status is success iff failed = 0 and partial otherwise; with zero
\* valid leads the status is error and no batch is dispatched.  Batches of
\* 100, 100, 50 where only batch 2 fails give uploaded = 150, failed = 100,
\* status partial.
C9_TotalsAreSumsAndStatus ==
    /\ pc = "returned" =>
        IF valid_leads = <<>>
        THEN /\ result[1].status = "error"
             /\ batches = <<>>
             /\ \A i \in DOMAIN calls : calls[i].campaign_id # campaign_id
        ELSE /\ result[1].uploaded =
                    SumOver([b \in BatchNums |-> batch_result[b][1].uploaded], BatchNums)
             /\ result[1].failed =
                    SumOver([b \in BatchNums |-> batch_result[b][1].failed], BatchNums)
             /\ result[1].status = (IF result[1].failed = 0 THEN "success" ELSE "partial")
    /\ <<ExampleUploaded, ExampleFailed, DeliveryStatus(ExampleFailed)>>
            = <<150, 100, "partial">>

\* C9 witness: three batches were delivered of which only batch 2 failed.
C9_OnlySecondOfThreeFailed ==
    /\ pc = "returned"
    /\ Len(batches) = 3
    /\ batch_result[1][1].failed = 0
    /\ batch_result[2][1].failed > 0
    /\ batch_result[3][1].failed = 0
    /\ result[1].status = "partial"

\* every order in which the futures can be yielded by as_completed
Orders ==
    {p \in [BatchNums -> BatchNums] : \A i, j \in BatchNums : i # j => p[i] # p[j]}

\* the totals after collecting the results p[k], p[k+1], ... on top of <<u, f>>
RECURSIVE TotalsInOrder(_, _, _, _)
TotalsInOrder(p, k, u, f) ==
    IF k > Len(batches) THEN <<u, f>>
    ELSE TotalsInOrder(p, k + 1,
                       Accumulate(u, batch_result[p[k]][1].uploaded),
                       Accumulate(f, batch_result[p[k]][1].failed))

\* C10: for fixed per-batch outcomes, the destination's uploaded and failed
\* totals and its status are the same under every completion order of the
\* concurrently executing batches: aggregating the outcomes in any order
\* gives the result the call returned.
C10_TotalsIndependentOfOrder ==
    (pc = "returned" /\ valid_leads # <<>>) =>
        \A p \in Orders :
            LET t == TotalsInOrder(p, 1, 0, 0)
            IN  /\ t[1] = result[1].uploaded
                /\ t[2] = result[1].failed
                /\ DeliveryStatus(t[2]) = result[1].status

\* C10 witness: a call returned after its futures were collected out of
\* submission order, with batches whose outcomes differ.
C10_ReturnedAfterReordering ==
    /\ pc = "returned"
    /\ reordered
    /\ \E b, c \in BatchNums : batch_result[b][1] # batch_result[c][1]


\* ------------------------------------------------- claims on the segmenter
\* the segments of a manifest (or of segment_definitions) that list title t
Listing(t, segments) ==
    {k \in 1..Len(segments) : InList(t, Get(segments[k], "job_titles", <<>>))}

\* the run wrote its manifest and returned
Segmented == pc = "exit" /\ mapping_file # <<>>

\* the segments the classifier step produced, and those of the manifest written
Defined == segment_definitions[1].segments
Written == mapping_file[1].segments

\* C11 as stated: for every non-empty set of unique input titles, the
\* manifest the Title Classifier step produces lists every input title in the
\* job_titles of exactly one segment, on the primary path and on the
\* fallback path.
C11_ClassifierCoversEachTitleOnce ==
    (job_titles # <<>> /\ segment_definitions # <<>>)
        => \A i \in 1..Len(job_titles) :
              Cardinality(Listing(job_titles[i], Defined)) = 1

\* C12 as stated: in the manifest written, every title carried by some input
\* lead is listed by exactly one segment, the titles of segments merged into
\* exec included.
C12_NoTitleOrphaned ==
    Segmented
        => \A i \in 1..Len(input_leads) :
              Truthy(ResolvedTitle(input_leads[i]))
                  => Cardinality(Listing(ResolvedTitle(input_leads[i]), Written)) = 1


\* The loop over the segments and the re-save of exec, on given leads,
\* classifier segments and minimum size.
RECURSIVE FilterFrom(_, _, _, _)
FilterFrom(k, st, segments, N) ==
    IF k > Len(segments) THEN st
    ELSE FilterFrom(k + 1, FilterOne(st, segments[k], N), segments, N)

Assigner(ls, segments, N) ==
    ResaveExec(FilterFrom(1,
        [filtered_segments |-> <<>>,
         segment_leads |-> AssignUnmatched(SplitLeads(ls, segments),
                                           Unmatched(ls, segments)),
         segment_files |-> [id \in SegmentIdSet |-> <<>>],
         total_saved_leads |-> 0],
        segments, N))

\* the leads the split gave each segment_id (for exec, the unmatched ones too)
Realized ==
    AssignUnmatched(SplitLeads(input_leads, Defined), Unmatched(input_leads, Defined))

\* a segment that got the leads ls has some, but fewer than the minimum
Small(ls) == 0 < Len(ls) /\ Len(ls) < min_segment_size

\* lead l is in the exec partition file
InExecFile(l) == segment_files["exec"] # <<>> /\ InList(l, segment_files["exec"][1])

\* every lead of ls is in the exec partition file, and the manifest has an
\* exec entry
FoldedIntoExec(ls) ==
    /\ \A i \in 1..Len(ls) : InExecFile(ls[i])
    /\ ExecEntries(Written) # {}

\* segment_id id has no partition file and no manifest entry of its own
NotEmitted(id) ==
    /\ segment_files[id] = <<>>
    /\ \A j \in 1..Len(Written) : Written[j].segment_id # id

\* The example of C13: manifest {exec:[CEO], operations:[COO]}, minimum 10,
\* five leads titled COO and none titled CEO.
ExampleCooLeads == [i \in 1..5 |-> WithUid([job_title |-> COO], <<"input", i>>)]

ExampleAssigned ==
    Assigner(ExampleCooLeads,
             <<FallbackSegment("exec", <<CEO>>), FallbackSegment("operations", <<COO>>)>>,
             DefaultMinSegmentSize)

ExampleMerged ==
    /\ ExampleAssigned.segment_files["operations"] = <<>>
    /\ ExampleAssigned.segment_files["exec"] = <<ExampleCooLeads>>
    /\ Len(ExampleAssigned.filtered_segments) = 1
    /\ ExampleAssigned.filtered_segments[1].segment_id = "exec"
    /\ ExampleAssigned.filtered_segments[1].lead_count = 5

\* C13 as stated: for every classifier segment whose realized lead count c
\* satisfies 0 < c < N, after Segment Assignment no partition file and no
\* manifest entry is emitted for that segment, all its leads are in the exec
\* partition and the manifest has an exec entry; and the example yields no
\* operations file, five leads in exec and exec lead_count 5.
C13_EverySmallSegmentMergedAway ==
    /\ Segmented
          => LET got == Realized
             IN  \A k \in 1..Len(Defined) :
                    Small(got[Defined[k].segment_id])
                        => /\ NotEmitted(Defined[k].segment_id)
                           /\ FoldedIntoExec(got[Defined[k].segment_id])
    /\ ExampleMerged

\* C13 amended: the same for every classifier segment other than exec; a
\* below-minimum exec segment keeps its leads in the exec partition and has
\* its manifest entry.
C13_SmallNonExecSegmentMergedAway ==
    /\ Segmented
          => LET got == Realized
             IN  \A k \in 1..Len(Defined) :
                    Small(got[Defined[k].segment_id])
                        => /\ FoldedIntoExec(got[Defined[k].segment_id])
                           /\ Defined[k].segment_id # "exec"
                                 => NotEmitted(Defined[k].segment_id)
    /\ ExampleMerged

\* C13 witness: a run on the primary path finished in which a segment other
\* than exec was below the minimum and the classifier named no exec segment.
C13_SmallSegmentWithoutExec ==
    /\ Segmented
    /\ path = "primary"
    /\ \A k \in 1..Len(Defined) : Defined[k].segment_id # "exec"
    /\ \E k \in 1..Len(Defined) : Small(Realized[Defined[k].segment_id])

\* segment entry seg meets the size floor
MeetsFloor(seg) == seg.lead_count >= min_segment_size

\* C14 as stated: every segment of the filtered manifest has a lead_count of
\* at least the minimum segment size.
C14_EverySegmentMeetsFloor ==
    Segmented => \A j \in 1..Len(Written) : MeetsFloor(Written[j])

\* C14 amended: every segment of the filtered manifest other than exec has a
\* lead_count of at least the minimum segment size (exec, which takes the
\* below-minimum segments and the unmatched leads, may be smaller).
C14_NonExecSegmentsMeetFloor ==
    /\ \A j \in 1..Len(filtered_segments) :
          filtered_segments[j].segment_id # "exec" => MeetsFloor(filtered_segments[j])
    /\ Segmented
          => \A j \in 1..Len(Written) :
                Written[j].segment_id # "exec" => MeetsFloor(Written[j])

\* C14 witness: a manifest was written with a kept segment other than exec
\* and an exec entry below the minimum.
C14_KeptSegmentAndSmallExec ==
    /\ Segmented
    /\ \E j \in 1..Len(Written) : Written[j].segment_id # "exec"
    /\ \E j \in 1..Len(Written) :
          Written[j].segment_id = "exec" /\ ~MeetsFloor(Written[j])

\* C15 as stated: after Segment Assignment every entry of the filtered
\* manifest has a partition file and its lead_count is the number of leads
\* in that file; every exec entry carries the final size of the exec
\* partition, whatever the order of the classifier's segments.
C15_LeadCountMatchesPartition ==
    Segmented
        => \A j \in 1..Len(Written) :
              /\ segment_files[Written[j].segment_id] # <<>>
              /\ Written[j].lead_count = Len(segment_files[Written[j].segment_id][1])

\* C16 as stated: the partition files written in the run are those of the
\* segment_ids of the filtered manifest, one to one.
C16_FilesMatchManifest ==
    Segmented
        => {id \in SegmentIdSet : segment_files[id] # <<>>}
             = {Written[j].segment_id : j \in 1..Len(Written)}

\* the title of the lead, stripped and lower-cased, is listed by no segment
NoEntry(lead) ==
    ~\E k \in 1..Len(Defined) :
        \E i \in 1..Len(Defined[k].job_titles) :
            Lower(Defined[k].job_titles[i]) = Lower(Strip(ResolvedTitle(lead)))

\* C17: after Segment Assignment every lead whose title has no entry in the
\* title lookup (an empty title, or a title the manifest does not list) is in
\* the exec partition file.
C17_UnmatchedLeadsInExecPartition ==
    Segmented
        => \A i \in 1..Len(input_leads) :
              NoEntry(input_leads[i]) => InExecFile(input_leads[i])

\* C17 witness: a run finished whose input had a lead with an empty title
\* and a lead with a title the manifest does not list.
C17_EmptyAndUnlistedTitle ==
    /\ Segmented
    /\ \E i, j \in 1..Len(input_leads) :
          /\ NoEntry(input_leads[i]) /\ ~Truthy(ResolvedTitle(input_leads[i]))
          /\ NoEntry(input_leads[j]) /\ Truthy(ResolvedTitle(input_leads[j]))

\* C18 as stated: when no input lead has a non-empty title the run does not
\* abort and the manifest it emits holds a single segment, general, with no
\* job titles.
C18_GeneralSegmentWhenNoTitles ==
    (path = "general" /\ pc \in {"exit", "crashed"})
        => /\ pc = "exit"
           /\ ret[1].status = "success"
           /\ mapping_file # <<>>
           /\ Len(Written) = 1
           /\ Written[1].segment_id = "general"
           /\ Written[1].job_titles = <<>>

\* the reply holds a JSON object with a list of segments that each carry a
\* segment_id and job_titles
Usable(reply) ==
    /\ "text" \in DOMAIN reply
    /\ \E i \in 1..Len(reply.text) :
          /\ reply.text[i].kind = "json"
          /\ "segments" \in DOMAIN reply.text[i].value
          /\ \A k \in 1..Len(reply.text[i].value.segments) :
                WellFormed(reply.text[i].value.segments[k])

\* C19 as stated: whenever the classifier is unavailable, throws, times out
\* or returns malformed output, the run uses the keyword fallback, raises no
\* exception while it uses the classification, and returns status success
\* with a manifest.
C19_ClassifierFailureRecovered ==
    (api_response # <<>> /\ ~Usable(api_response[1]))
        => /\ path = "fallback"
           /\ pc = "crashed" => seg_pos > 0
           /\ pc = "exit" => ret[1].status = "success" /\ mapping_file # <<>>

\* the messages of the uploader's early error returns
ConfigMessages ==
    {"INSTANTLY_API_KEY not found in .env file",
     "Campaigns file not found", "Invalid JSON in campaigns file",
     "No successful campaigns found in campaigns file",
     "Segment mapping file not found", "Invalid JSON in segments file"}

\* C20: a run of the segmented uploader returns status error exactly for a
\* missing credential, a missing or unparsable destination list, no
\* participating destination, or a missing or unparsable Segment Manifest;
\* it then has made no delivery call, read no partition, recorded no result
\* and written no Run Report, and main exits with a non-zero code.  A run
\* that gets further has a participating destination and a manifest.
C20_ConfigFailureStopsBeforeWork ==
    /\ (ret # <<>> /\ ret[1].status = "error")
          => /\ ret[1].message \in ConfigMessages
             /\ calls = <<>>
             /\ results = <<>>
             /\ \A s \in SegmentIds : leads_dir[s] = <<>>
             /\ report = <<>>
             /\ exit_code # <<>> /\ exit_code[1] # 0
    /\ (pc # "start" /\ ~(ret # <<>> /\ ret[1].status = "error"))
          => successful_campaigns # <<>> /\ segment_mapping # <<>>

\* C20 witness: the run ended on an unparsable Segment Manifest although the
\* destination list had a participating destination.
C20_EndedOnInvalidManifest ==
    /\ pc = "exit"
    /\ ret # <<>>
    /\ ret[1].status = "error"
    /\ ret[1].message = "Invalid JSON in segments file"

\* segment lists the title, compared case-insensitively
ListsTitle(segment, title) ==
    \E i \in 1..Len(segment.job_titles) : Lower(segment.job_titles[i]) = Lower(title)

\* the split of the leads is done and no segment was filtered yet
Assigned == pc = "filter" /\ seg_pos = 1

\* C22 as stated: a lead is collected as unmatched only if its resolved title
\* is empty or no segment of the manifest lists it; every lead whose title a
\* segment lists, compared case-insensitively, is placed in the partition of
\* a segment that lists it, titles extracted with leading or trailing white
\* space included.
C22_ListedTitleReachesItsSegment ==
    Assigned
        => \A i \in 1..Len(input_leads) :
              LET title == ResolvedTitle(input_leads[i])
                  listing == {k \in 1..Len(Defined) : ListsTitle(Defined[k], title)}
              IN  /\ InList(input_leads[i], unmatched_leads)
                        => (title = <<>> \/ listing = {})
                  /\ listing # {}
                        => \E k \in listing :
                              InList(input_leads[i],
                                     SplitLeads(input_leads, Defined)[Defined[k].segment_id])

\* the titles in which some keyword of the list occurs, and those in which no
\* keyword of any list occurs (compared in lower case)
Hitting(titles, keywords) ==
    SelectSeq(titles, LAMBDA t : AnyKeyword(Lower(t), keywords))

NoKeyword(titles) ==
    SelectSeq(titles, LAMBDA t :
        ~AnyKeyword(Lower(t), ExecKeywords \o OperationsKeywords \o MarketingKeywords
                                \o SalesKeywords \o TechnicalKeywords))

\* the positions of the segments with segment_id id
EntriesOf(segments, id) == {k \in 1..Len(segments) : segments[k].segment_id = id}

\* C27: on the fallback path the titles that hit no keyword list are the
\* general bucket; when it is non-empty, has fewer than 10 titles and the
\* exec bucket is non-empty, its titles are appended to the exec segment's
\* job_titles and no general segment is emitted; when it has 10 or more
\* titles, or there is no exec bucket, one general segment holding exactly
\* those titles is emitted (and exec keeps its own titles).
C27_SmallGeneralBucketJoinsExec ==
    (path = "fallback" /\ segment_definitions # <<>>)
        => LET general == NoKeyword(job_titles)
               exec == Hitting(job_titles, ExecKeywords)
           IN  general # <<>>
                  => IF Len(general) < 10 /\ exec # <<>>
                     THEN /\ EntriesOf(Defined, "general") = {}
                          /\ EntriesOf(Defined, "exec") = {1}
                          /\ Defined[1].job_titles = exec \o general
                     ELSE /\ Cardinality(EntriesOf(Defined, "general")) = 1
                          /\ \A k \in EntriesOf(Defined, "general") :
                                Defined[k].job_titles = general
                          /\ \A k \in EntriesOf(Defined, "exec") :
                                Defined[k].job_titles = exec

\* C27 witness: the fallback was given exactly 10 titles that hit no keyword
\* and an exec title, and emitted a general segment beside the exec segment.
C27_TenGeneralTitlesStandAlone ==
    /\ pc = "classified"
    /\ Len(NoKeyword(job_titles)) = 10
    /\ EntriesOf(Defined, "exec") # {}
    /\ EntriesOf(Defined, "general") # {}

\* the partition file of segment_id id as last written in the run (empty when
\* none was written)
Persisted(id) == IF segment_files[id] = <<>> THEN <<>> ELSE segment_files[id][1]

\* the places <<segment_id, position>> where lead l is persisted
PlacesPersisted(l) ==
    UNION {{<<id, j>> : j \in {j \in 1..Len(Persisted(id)) : Persisted(id)[j] = l}}
           : id \in SegmentIdSet}

\* C28 as stated: after Segment Assignment every input lead is in the
\* persisted partitions exactly once, and the partition sizes sum to
\* total_leads, for every segment order and all segment sizes, the exec
\* segment having between 1 and N-1 leads included.
C28_EachLeadPersistedOnce ==
    Segmented
        => /\ \A i \in 1..Len(input_leads) :
                 Cardinality(PlacesPersisted(input_leads[i])) = 1
           /\ SumOver([id \in SegmentIdSet |-> Len(Persisted(id))], SegmentIdSet)
                 = mapping_file[1].total_leads

\* C29 as stated: the manifest written never holds two entries with the same
\* segment_id (at most one exec entry), and total_segments is the number of
\* distinct segment_ids, for every order of the classifier's segments, a
\* below-minimum segment before exec included.
C29_SegmentIdsUnique ==
    Segmented
        => /\ \A j, k \in 1..Len(Written) :
                 Written[j].segment_id = Written[k].segment_id => j = k
           /\ mapping_file[1].total_segments
                 = Cardinality({Written[j].segment_id : j \in 1..Len(Written)})

\* ----------------------------------------------- claims on delivery, C21-C26
\* the resolved email as the claim words it: the email field if non-empty,
\* otherwise contact_email (None when that is absent too)
ClaimedEmail(lead) ==
    IF "email" \in DOMAIN lead /\ lead.email # NoneStr /\ lead.email # <<>>
    THEN lead.email
    ELSE IF "contact_email" \in DOMAIN lead THEN lead.contact_email
    ELSE NoneStr

\* the resolved email is non-empty and contains "@"
Plausible(lead) ==
    /\ ClaimedEmail(lead) # NoneStr
    /\ ClaimedEmail(lead) # <<>>
    /\ \E i \in 1..Len(ClaimedEmail(lead)) : ClaimedEmail(lead)[i] = "@"

\* lead l is in some batch
InBatch(l) == \E b \in BatchNums : InList(l, batches[b])

\* C21: once the leads are filtered, a lead of the partition is in a batch if
\* and only if its resolved email (email if non-empty, otherwise
\* contact_email) is non-empty and contains "@"; valid_leads is the number of
\* such leads; every delivery call carries only such leads, under their
\* resolved email.
C21_BatchedIffPlausibleEmail ==
    /\ pc \in {"uploading", "returned"}
          => /\ \A i \in 1..Len(leads) : InBatch(leads[i]) <=> Plausible(leads[i])
             /\ Len(valid_leads)
                   = Cardinality({i \in 1..Len(leads) : Plausible(leads[i])})
    /\ (result # <<>> /\ "valid_leads" \in DOMAIN result[1])
          => result[1].valid_leads
                = Cardinality({i \in 1..Len(leads) : Plausible(leads[i])})
    /\ \A c \in DOMAIN calls :
          \A j \in 1..Len(calls[c].batch) :
              /\ Plausible(calls[c].batch[j])
              /\ calls[c].leads[j].email = ClaimedEmail(calls[c].batch[j])

\* C21 witness: a call returned that delivered a lead through its
\* contact_email alias and left out a lead whose email has no "@" although
\* its alias is plausible.
C21_AliasDeliveredAndImplausibleLeftOut ==
    /\ pc = "returned"
    /\ \E c \in DOMAIN calls :
          \E j \in 1..Len(calls[c].batch) :
              /\ Get(calls[c].batch[j], "email", NoneStr) = <<>>
              /\ calls[c].leads[j].email = GoodEmail
    /\ \E i \in 1..Len(leads) :
          /\ Get(leads[i], "email", NoneStr) = BadEmail
          /\ Get(leads[i], "contact_email", NoneStr) = GoodEmail
          /\ \A c \in DOMAIN calls : ~InList(leads[i], calls[c].batch)

\* the delivery calls made for batch b
CallsOf(b) == {c \in DOMAIN calls : calls[c].batch_num = b}

\* the places <<batch, position>> where lead l is batched
PlacesInBatches(l) ==
    {<<b, j>> \in BatchNums \X (1..Len(valid_leads)) :
        j <= Len(batches[b]) /\ batches[b][j] = l}

\* the places <<call, position>> where lead l is sent
PlacesInCalls(l) ==
    {<<c, j>> \in (DOMAIN calls) \X (1..Len(valid_leads)) :
        j <= Len(calls[c].batch) /\ calls[c].batch[j] = l}

\* C23: within one destination's delivery every valid lead is in exactly one
\* batch; a batch that was dispatched was sent in exactly one delivery call,
\* whatever that call answered, and one that was not yet dispatched in none;
\* when the delivery has returned every valid lead was sent exactly once.
C23_EachBatchSentOnce ==
    /\ \A b \in BatchNums :
          /\ Cardinality(CallsOf(b)) = (IF future[b] = "queued" THEN 0 ELSE 1)
          /\ \A c \in CallsOf(b) : calls[c].batch = batches[b]
    /\ \A c \in DOMAIN calls : calls[c].batch_num \in BatchNums
    /\ pc \in {"uploading", "returned"}
          => \A i \in 1..Len(valid_leads) :
                Cardinality(PlacesInBatches(valid_leads[i])) = 1
    /\ pc = "returned"
          => \A i \in 1..Len(valid_leads) :
                Cardinality(PlacesInCalls(valid_leads[i])) = 1

\* C23 witness: a delivery of three batches returned in which a batch failed
\* and three calls were made.
C23_ReturnedWithFailedBatch ==
    /\ pc = "returned"
    /\ Len(batches) = 3
    /\ Len(calls) = 3
    /\ \E b \in BatchNums : batch_result[b][1].failed > 0

\* the delivery calls whose request was posted and not yet answered
InFlight == {c \in DOMAIN calls : response[calls[c].batch_num] = <<>>}

\* C24: at every moment of one destination's delivery the number of delivery
\* calls in flight is at most min(5, number of batches), also when more than
\* 5 batches were submitted.
C24_InFlightAtMostPoolSize ==
    /\ Cardinality(InFlight) <= (IF Len(batches) < 5 THEN Len(batches) ELSE 5)
    /\ Cardinality(Running) = Cardinality(InFlight)

\* C24 witness: six batches were submitted, five calls are in flight and the
\* sixth batch waits for a worker.
C24_FiveInFlightOneQueued ==
    /\ pc = "uploading"
    /\ Len(batches) = 6
    /\ Cardinality(InFlight) = 5
    /\ \E b \in BatchNums : future[b] = "queued"

\* the place in the list of participating destinations of the destination
\* with campaign_id cid
PlaceOf(cid) ==
    CHOOSE k \in DOMAIN successful_campaigns : successful_campaigns[k].campaign_id = cid

\* a batch of the destination being delivered to is dispatched and not yet
\* aggregated
Outstanding == {b \in BatchNums : future[b] \in {"running", "done"}}

\* the calls are in destination-list order, they are for destinations the
\* loop has reached, those of earlier destinations have their result
\* recorded, and while a batch is outstanding the current destination's
\* result is not
CallsFollowTheList ==
    /\ \A i, j \in DOMAIN calls :
          i < j => PlaceOf(calls[i].campaign_id) <= PlaceOf(calls[j].campaign_id)
    /\ \A c \in DOMAIN calls :
          /\ PlaceOf(calls[c].campaign_id) <= idx
          /\ PlaceOf(calls[c].campaign_id) < idx
                => /\ PlaceOf(calls[c].campaign_id) <= Len(results)
                   /\ results[PlaceOf(calls[c].campaign_id)].campaign_id
                         = calls[c].campaign_id
    /\ Outstanding # {} => (pc = "uploading" /\ Len(results) = idx - 1)

\* a step that makes a call makes it for the destination the loop is at,
\* every earlier result being recorded; a step that moves the loop on finds
\* every batch completed and aggregated
StepsOneDestination ==
    /\ Len(calls') > Len(calls)
          => /\ calls'[Len(calls')].campaign_id = successful_campaigns[idx].campaign_id
             /\ Len(results) = idx - 1
    /\ idx' # idx => \A b \in BatchNums : future[b] = "collected"

\* C25: destinations are processed one at a time in destination-list order:
\* no batch of a later destination is dispatched until every batch of every
\* earlier destination has completed and that destination's result was
\* recorded, so batches of two destinations are never in flight together.
C25_DestinationsOneAtATime == []CallsFollowTheList /\ [][StepsOneDestination]_vars

\* C25 witness: the batch of the second destination is in flight after the
\* first destination was delivered to and its result recorded.
C25_SecondDestinationInFlight ==
    /\ pc = "uploading"
    /\ idx = 2
    /\ Running # {}
    /\ Len(calls) = 2
    /\ calls[1].campaign_id # calls[2].campaign_id
    /\ Len(results) = 1
    /\ results[1].campaign_id = calls[1].campaign_id

\* when the destination's result exists, every batch was sent, answered and
\* aggregated, and the result's counts are the sums over all batches
ResultAfterAllBatches ==
    result # <<>>
        => /\ \A b \in BatchNums :
                 /\ future[b] = "collected"
                 /\ CallsOf(b) # {}
                 /\ response[b] # <<>>
           /\ result[1].uploaded
                 = SumOver([b \in BatchNums |-> batch_result[b][1].uploaded], BatchNums)
           /\ result[1].failed
                 = SumOver([b \in BatchNums |-> batch_result[b][1].failed], BatchNums)

\* a batch only moves forward: queued, running, done, collected
NoBatchAbandoned ==
    \A b \in BatchNums :
        future'[b] # future[b]
            => <<future[b], future'[b]>>
                  \in {<<"queued", "running">>, <<"running", "done">>,
                       <<"done", "collected">>}

\* C26: when every delivery call returns or times out, the delivery to a
\* destination terminates; its result exists only once every batch was sent,
\* answered and aggregated; no batch is taken back or left behind, and a
\* failed or timed-out batch does not keep the others from running.
C26_DeliveryTerminatesAfterAllBatches ==
    /\ <>(pc = "returned")
    /\ []ResultAfterAllBatches
    /\ [][NoBatchAbandoned]_vars

\* C26 witness: of six batches the sixth, which had to wait for a worker, is
\* running although every batch answered so far has timed out.
C26_RunningAfterTimeouts ==
    /\ pc = "uploading"
    /\ Len(batches) = 6
    /\ future[6] = "running"
    /\ \E b \in BatchNums : response[b] # <<>>
    /\ \A b \in BatchNums : response[b] # <<>> => IsTransportError(response[b][1])

\* the sum over the entries of rs of the count under key (0 where an entry
\* has none)
SumOfCounts(rs, key) == SumOver([i \in DOMAIN rs |-> Get(rs[i], key, 0)], DOMAIN rs)

\* C30 as stated: in every Run Report summary.total_uploaded is the sum of
\* the uploaded counts and summary.total_failed the sum of the failed lead
\* counts of the entries of results, and summary.campaigns_skipped is the
\* number of entries with status skipped; entries recorded as error or
\* skipped add nothing to the lead totals.
C30_SummaryTotalsAreSums ==
    report # <<>>
        => /\ report[1].summary.total_uploaded
                 = SumOfCounts(report[1].results, "uploaded")
           /\ report[1].summary.total_failed
                 = SumOfCounts(report[1].results, "failed")
           /\ report[1].summary.campaigns_skipped
                 = NumWithStatus(report[1].results, "skipped")

====
